---- MODULE Spec2Model ----
(***************************************************************************)
(* Model of the configuration core of claude-deck:                         *)
(*   - utils/pattern_utils.py      (pattern grammar, migration, sanitize)  *)
(*   - services/config_service.py  (scope resolution)                      *)
(*   - services/permission_service.py (rule listing, evaluation, writes)   *)
(*                                                                         *)
(* Strings that the code inspects character by character (permission      *)
(* patterns, tool names, arguments) are sequences of one-character         *)
(* strings.  JSON values are records [jtype, jval].                       *)
(***************************************************************************)
EXTENDS Integers, Sequences, FiniteSets, TLC

VARIABLES
    docs,            \* tier -> settings document stored for that tier
    pattern,         \* grammar: the pattern handed to classify / migrate
    classifyResult,  \* grammar: result of validate_permission_pattern
    migrateResult,   \* grammar: result of migrate_deprecated_pattern
    sanIn,           \* sanitize: the settings document handed to sanitize
    sanOut,          \* sanitize: result of sanitize_permission_rules
    resolveReq,      \* resolve: project_path of the last resolve request
    resolved,        \* resolve: result of get_resolved_config
    evalReq,         \* evaluate: the last invocation (tool, argument, project_path)
    evalResult,      \* evaluate: the decision returned for evalReq
    op,              \* write: the last write request, its outcome and the
                     \*        documents stored before it
    writes,          \* write: the number of write requests served
    validation,      \* dry run: result of validate_settings for sanIn
    again,           \* dry run: result of sanitizing the sanitized document
    proc,            \* race: per process, its step and what it holds in memory
    observed,        \* race: the decisions evaluate returned during an update
    matchResult      \* match: result of _matches_pattern for pattern and evalReq

vars == <<docs, pattern, classifyResult, migrateResult, sanIn, sanOut,
          resolveReq, resolved, evalReq, evalResult,
         op, writes, validation, again, proc, observed, matchResult>>

---------------------------------------------------------------------------
(* JSON documents: values tagged with their type; a mapping's keys are
   strings *)

JNull == [jtype |-> "null", jval |-> 0]
JNum(n) == [jtype |-> "num", jval |-> n]
JBool(b) == [jtype |-> "bool", jval |-> b]
JStr(chars) == [jtype |-> "str", jval |-> chars]
JList(items) == [jtype |-> "list", jval |-> items]
JMap(fields) == [jtype |-> "map", jval |-> fields]

\* the empty mapping {}
EmptyFields == [key \in {} |-> JNull]
EmptyMap == JMap(EmptyFields)

IsDict(j) == j.jtype = "map"
IsList(j) == j.jtype = "list"
IsStr(j) == j.jtype = "str"

HasKey(j, key) == IsDict(j) /\ key \in DOMAIN j.jval

\* dict.get(key): None (JSON null) when the key is absent
Get(j, key) == IF key \in DOMAIN j.jval THEN j.jval[key] ELSE JNull

\* d[key] = value on a copy of the mapping d
Put(j, key, value) ==
    JMap([x \in DOMAIN j.jval \cup {key} |-> IF x = key THEN value ELSE j.jval[x]])

DigitOf(n) == CASE n = 0 -> "0" [] n = 1 -> "1" [] n = 2 -> "2" [] n = 3 -> "3"
                [] n = 4 -> "4" [] n = 5 -> "5" [] n = 6 -> "6" [] n = 7 -> "7"
                [] n = 8 -> "8" [] n = 9 -> "9"

\* str(value) for the non-string scalars of the model (numbers below 100)
PyStr(j) ==
    CASE j.jtype = "null" -> <<"N", "o", "n", "e">>
      [] j.jtype = "bool" -> IF j.jval THEN <<"T", "r", "u", "e">>
                         ELSE <<"F", "a", "l", "s", "e">>
      [] j.jtype = "num" -> IF j.jval < 10 THEN <<DigitOf(j.jval)>>
                        ELSE <<DigitOf(j.jval \div 10), DigitOf(j.jval % 10)>>
      [] j.jtype = "str" -> j.jval

---------------------------------------------------------------------------
(* Bounds of the model *)

MaxArgLen == 3      \* longest enumerated argument inside Tool(...)
MaxRules == 2       \* longest enumerated allow/ask/deny list

---------------------------------------------------------------------------
(* Python values *)

\* Python's None, where a string (a sequence of characters) is expected
None == <<"None">>

\* the idle value of an input variable a specification does not use
Unset == <<"Unset">>

\* a result variable: before its operation has run, and holding what it returned
NotRun == [done |-> FALSE, value |-> <<>>]
Done(v) == [done |-> TRUE, value |-> v]

LF == "\n"
CR == "\r"
TAB == "\t"

UpperCase == {"A","B","C","D","E","F","G","H","I","J","K","L","M",
              "N","O","P","Q","R","S","T","U","V","W","X","Y","Z"}
LowerCase == {"a","b","c","d","e","f","g","h","i","j","k","l","m",
              "n","o","p","q","r","s","t","u","v","w","x","y","z"}
Digits == {"0","1","2","3","4","5","6","7","8","9"}

\* [A-Za-z_]
IdentStart == UpperCase \cup LowerCase \cup {"_"}
\* [A-Za-z0-9_]
IdentChar == IdentStart \cup Digits

\* the characters str.strip() removes (ASCII whitespace)
Whitespace == {" ", TAB, LF, CR}

Min(S) == CHOOSE m \in S : \A n \in S : m <= n

\* s[a..b] as a sequence (empty when a > b)
Slice(s, a, b) == IF a > b THEN <<>> ELSE SubSeq(s, a, b)

Front(s) == Slice(s, 1, Len(s) - 1)

EndsWith(s, suffix) ==
    /\ Len(s) >= Len(suffix)
    /\ Slice(s, Len(s) - Len(suffix) + 1, Len(s)) = suffix

Contains(s, c) == \E i \in 1..Len(s) : s[i] = c

---------------------------------------------------------------------------
(* Regular expressions of pattern_utils.py *)

\* length of the longest prefix of s matching [A-Za-z_][A-Za-z0-9_]*
IdentPrefixLen(s) ==
    IF Len(s) = 0 \/ s[1] \notin IdentStart THEN 0
    ELSE LET stops == {i \in 2..Len(s) : s[i] \notin IdentChar}
         IN  IF stops = {} THEN Len(s) ELSE Min(stops) - 1

NoMatch == [matched |-> FALSE, tool |-> <<>>, arg |-> <<>>]

\* ^([A-Za-z_][A-Za-z0-9_]*)\((.+)\) anchored at the end of s;
\* dotall says whether '.' matches a newline
ToolArgFull(s, dotall) ==
    LET n == IdentPrefixLen(s)
        arg == Slice(s, n + 2, Len(s) - 1)
    IN  IF /\ n >= 1
           /\ Len(s) >= n + 3
           /\ s[n + 1] = "("
           /\ s[Len(s)] = ")"
           /\ (dotall \/ ~Contains(arg, LF))
        THEN [matched |-> TRUE, tool |-> Slice(s, 1, n), arg |-> arg]
        ELSE NoMatch

\* '$' matches at the end of the string and before a newline that ends it
ToolArgMatch(s, dotall) ==
    IF ToolArgFull(s, dotall).matched THEN ToolArgFull(s, dotall)
    ELSE IF Len(s) > 0 /\ s[Len(s)] = LF THEN ToolArgFull(Front(s), dotall)
    ELSE NoMatch

\* TOOL_ARG_RE = ^([A-Za-z_][A-Za-z0-9_]*)\((.+)\)$ with re.DOTALL
TOOL_ARG_RE(s) == ToolArgMatch(s, TRUE)

ToolSubcommandFull(s) ==
    LET n == IdentPrefixLen(s)
    IN  n >= 1 /\ Len(s) = n + 2 /\ s[n + 1] = ":" /\ s[n + 2] = "*"

\* TOOL_SUBCOMMAND_RE = ^([A-Za-z_][A-Za-z0-9_]*):\*$
TOOL_SUBCOMMAND_RE(s) ==
    \/ ToolSubcommandFull(s)
    \/ (Len(s) > 0 /\ s[Len(s)] = LF /\ ToolSubcommandFull(Front(s)))

ToolNameFull(s) == IdentPrefixLen(s) >= 1 /\ IdentPrefixLen(s) = Len(s)

\* TOOL_NAME_RE = ^[A-Za-z_][A-Za-z0-9_]*$
TOOL_NAME_RE(s) ==
    \/ ToolNameFull(s)
    \/ (Len(s) > 0 /\ s[Len(s)] = LF /\ ToolNameFull(Front(s)))

\* DEPRECATED_COLON_STAR_RE.search(arg), the regex being :\*$
DeprecatedColonStarSearch(arg) ==
    EndsWith(arg, <<":", "*">>) \/ EndsWith(arg, <<":", "*", LF>>)

\* DEPRECATED_COLON_STAR_RE.sub(repl, arg): the one match, at the end, is replaced
DeprecatedColonStarSub(repl, arg) ==
    IF EndsWith(arg, <<":", "*">>) THEN Slice(arg, 1, Len(arg) - 2) \o repl
    ELSE IF EndsWith(arg, <<":", "*", LF>>)
         THEN Slice(arg, 1, Len(arg) - 3) \o repl \o <<LF>>
    ELSE arg

---------------------------------------------------------------------------
(* pattern_utils.py: classification and migration *)

MAX_PATTERN_LENGTH == 500

MCP == <<"M", "C", "P">>

ErrEmpty == <<"Pattern must not be empty">>
ErrNewline == <<"Pattern must not contain newline characters">>
ErrTooLong == <<"Pattern exceeds maximum length of 500 characters">>
ErrDeprecated == <<"The :* pattern inside Tool(...) is deprecated.">>
ErrFormat(p) == <<"Invalid pattern format: ">> \o p

Valid == [valid |-> TRUE, error |-> None]
Invalid(err) == [valid |-> FALSE, error |-> err]

\* pattern.strip() is empty
StripIsEmpty(p) == \A i \in 1..Len(p) : p[i] \in Whitespace

\* mutant: the MCP exemption is forgotten
validate_NoMcpExemption(p) ==
    IF Len(p) = 0 \/ StripIsEmpty(p) THEN Invalid(ErrEmpty)
    ELSE IF Contains(p, LF) \/ Contains(p, CR) THEN Invalid(ErrNewline)
    ELSE IF Len(p) > MAX_PATTERN_LENGTH THEN Invalid(ErrTooLong)
    ELSE IF TOOL_ARG_RE(p).matched
         THEN IF DeprecatedColonStarSearch(TOOL_ARG_RE(p).arg)
              THEN Invalid(ErrDeprecated)
              ELSE Valid
    ELSE IF TOOL_SUBCOMMAND_RE(p) THEN Valid
    ELSE IF TOOL_NAME_RE(p) THEN Valid
    ELSE Invalid(ErrFormat(p))

validate_permission_pattern(p) ==
    IF Len(p) = 0 \/ StripIsEmpty(p) THEN Invalid(ErrEmpty)
    ELSE IF Contains(p, LF) \/ Contains(p, CR) THEN Invalid(ErrNewline)
    ELSE IF Len(p) > MAX_PATTERN_LENGTH THEN Invalid(ErrTooLong)
    ELSE IF TOOL_ARG_RE(p).matched
         THEN IF TOOL_ARG_RE(p).tool # MCP
                 /\ DeprecatedColonStarSearch(TOOL_ARG_RE(p).arg)
              THEN Invalid(ErrDeprecated)
              ELSE Valid
    ELSE IF TOOL_SUBCOMMAND_RE(p) THEN Valid
    ELSE IF TOOL_NAME_RE(p) THEN Valid
    ELSE Invalid(ErrFormat(p))

\* mutant: the newline guard is forgotten
migrate_NoNewlineGuard(p) ==
    IF Len(p) > MAX_PATTERN_LENGTH THEN None
    ELSE IF /\ TOOL_ARG_RE(p).matched
            /\ TOOL_ARG_RE(p).tool # MCP
            /\ DeprecatedColonStarSearch(TOOL_ARG_RE(p).arg)
         THEN TOOL_ARG_RE(p).tool \o <<"(">>
                \o DeprecatedColonStarSub(<<" ", "*">>, TOOL_ARG_RE(p).arg)
                \o <<")">>
    ELSE None

\* mutant: MCP patterns are migrated like any other tool's
migrate_IncludingMcp(p) ==
    IF Contains(p, LF) \/ Contains(p, CR) THEN None
    ELSE IF Len(p) > MAX_PATTERN_LENGTH THEN None
    ELSE IF /\ TOOL_ARG_RE(p).matched
            /\ DeprecatedColonStarSearch(TOOL_ARG_RE(p).arg)
         THEN TOOL_ARG_RE(p).tool \o <<"(">>
                \o DeprecatedColonStarSub(<<" ", "*">>, TOOL_ARG_RE(p).arg)
                \o <<")">>
    ELSE None

migrate_deprecated_pattern(p) ==
    IF Contains(p, LF) \/ Contains(p, CR) THEN None
    ELSE IF Len(p) > MAX_PATTERN_LENGTH THEN None
    ELSE IF /\ TOOL_ARG_RE(p).matched
            /\ TOOL_ARG_RE(p).tool # MCP
            /\ DeprecatedColonStarSearch(TOOL_ARG_RE(p).arg)
         THEN TOOL_ARG_RE(p).tool \o <<"(">>
                \o DeprecatedColonStarSub(<<" ", "*">>, TOOL_ARG_RE(p).arg)
                \o <<")">>
    ELSE None

---------------------------------------------------------------------------
(* Inputs of the grammar specification *)

\* all sequences over alphabet of length at most n
Strings(alphabet, n) == UNION {[1..k -> alphabet] : k \in 0..n}

Pad(n) == [i \in 1..n |-> "a"]

\* tool-name positions: identifiers, the exempted MCP, and non-identifiers
GrammarTools ==
    {<<"B">>, MCP, <<"m", "c", "p">>, <<"M", "C">>, <<"_", "9">>, <<"9">>, <<>>}

GrammarArgAlphabet == {"a", ":", "*", " ", "(", ")", LF}

GrammarArgs ==
    Strings(GrammarArgAlphabet, MaxArgLen)
        \cup {<<":", "*", ":", "*">>, <<"a", ":", "*", ":", "*">>,
              <<"a", CR, ":", "*">>, <<TAB, ":", "*">>}

GrammarTails == {<<>>, <<"x">>, <<LF>>}

\* the patterns the specification text names
ExBashNpmRunStar == <<"B", "a", "s", "h", "(", "n", "p", "m", " ", "r", "u", "n", " ", "*", ")">>
ExBashNpmRunColonStar == <<"B", "a", "s", "h", "(", "n", "p", "m", " ", "r", "u", "n", ":", "*", ")">>
ExMcpServerColonStar == <<"M", "C", "P", "(", "s", "e", "r", "v", "e", "r", ":", "*", ")">>
ExTaskColonStar == <<"T", "a", "s", "k", ":", "*">>
ExTaskExplore == <<"T", "a", "s", "k", ":", "e", "x", "p", "l", "o", "r", "e">>

\* patterns around the 500-character limit
LongPatterns ==
    {<<"B", "(">> \o Pad(n - 3 - Len(suffix)) \o suffix \o <<")">> :
        n \in {MAX_PATTERN_LENGTH - 1, MAX_PATTERN_LENGTH, MAX_PATTERN_LENGTH + 1},
        suffix \in {<<>>, <<":", "*">>, <<":", "*", ":", "*">>}}
    \cup {Pad(MAX_PATTERN_LENGTH), Pad(MAX_PATTERN_LENGTH + 1),
          MCP \o <<"(">> \o Pad(MAX_PATTERN_LENGTH - 6) \o <<":", "*", ")">>,
          MCP \o <<"(">> \o Pad(MAX_PATTERN_LENGTH - 5) \o <<":", "*", ")">>}

PatternInputs ==
    {t \o <<"(">> \o a \o <<")">> \o tail :
        t \in GrammarTools, a \in GrammarArgs, tail \in GrammarTails}
    \cup {t \o <<":">> \o a : t \in GrammarTools, a \in Strings({"a", "*", ":"}, 2)}
    \cup {t \o tail : t \in GrammarTools, tail \in GrammarTails \cup {<<" ">>, <<"_">>}}
    \cup {<<" ">>, <<" ", " ">>, <<TAB>>, <<CR>>, <<"*">>}
    \cup {ExBashNpmRunStar, ExBashNpmRunColonStar, ExMcpServerColonStar,
          ExTaskColonStar, ExTaskExplore}
    \cup LongPatterns

---------------------------------------------------------------------------
(* Idle values of the variables a specification does not use *)

Tiers == {"managed", "local", "project", "user"}

NoDocs == [t \in Tiers |-> Unset]

GrammarIdle ==
    /\ pattern = Unset /\ classifyResult = NotRun /\ migrateResult = NotRun

SanitizeIdle == sanIn = Unset /\ sanOut = NotRun

ResolveIdle == resolveReq = Unset /\ resolved = NotRun

EvalIdle == evalReq = Unset /\ evalResult = NotRun

\* no write request served yet
NoWrite == [name |-> "none"]

WriteIdle == op = NoWrite /\ writes = 0

DryRunIdle == validation = NotRun /\ again = NotRun

RaceIdle == proc = <<>> /\ observed = {}

MatchIdle == matchResult = NotRun

---------------------------------------------------------------------------
(* Specification of the pattern grammar: classify and migrate one pattern *)

InitGrammar ==
    /\ pattern \in PatternInputs
    /\ classifyResult = NotRun
    /\ migrateResult = NotRun
    /\ docs = NoDocs
    /\ SanitizeIdle /\ ResolveIdle /\ EvalIdle /\ WriteIdle /\ DryRunIdle /\ RaceIdle /\ MatchIdle

Classify ==
    /\ ~classifyResult.done
    /\ classifyResult' = Done(validate_permission_pattern(pattern))
    /\ UNCHANGED <<validation, again, proc, observed, matchResult, op, writes, docs, pattern, migrateResult, sanIn, sanOut,
                   resolveReq, resolved, evalReq, evalResult>>

Migrate ==
    /\ ~migrateResult.done
    /\ migrateResult' = Done(migrate_deprecated_pattern(pattern))
    /\ UNCHANGED <<validation, again, proc, observed, matchResult, op, writes, docs, pattern, classifyResult, sanIn, sanOut,
                   resolveReq, resolved, evalReq, evalResult>>

NextGrammar == Classify \/ Migrate

SpecGrammar == InitGrammar /\ [][NextGrammar]_vars

---------------------------------------------------------------------------
(* The grammar as the specification text states it *)

IsIdentifier(s) ==
    /\ Len(s) >= 1
    /\ s[1] \in IdentStart
    /\ \A i \in 2..Len(s) : s[i] \in IdentChar

\* the positions i at which p reads identifier p[1..i], "(", a non-empty argument, ")"
ToolArgSplits(p) ==
    {i \in 1..(Len(p) - 3) :
        IsIdentifier(Slice(p, 1, i)) /\ p[i + 1] = "(" /\ p[Len(p)] = ")"}

\* Tool(argument) whose argument does not end in ':*' unless the tool is MCP
ShapeToolArgument(p) ==
    \E i \in ToolArgSplits(p) :
        EndsWith(Slice(p, i + 2, Len(p) - 1), <<":", "*">>) => Slice(p, 1, i) = MCP

\* identifier followed by exactly ':*'
ShapeSubcommandWildcard(p) ==
    Len(p) >= 3 /\ IsIdentifier(Slice(p, 1, Len(p) - 2)) /\ EndsWith(p, <<":", "*">>)

ShapeToolName(p) == IsIdentifier(p)

ShapeCount(p) ==
    (IF ShapeToolArgument(p) THEN 1 ELSE 0)
        + (IF ShapeSubcommandWildcard(p) THEN 1 ELSE 0)
        + (IF ShapeToolName(p) THEN 1 ELSE 0)

Accepted(p) ==
    /\ Len(p) > 0
    /\ \E i \in 1..Len(p) : p[i] \notin Whitespace
    /\ ~Contains(p, LF) /\ ~Contains(p, CR)
    /\ Len(p) <= MAX_PATTERN_LENGTH
    /\ ShapeCount(p) = 1

\* Tool(argument) with a tool other than MCP and an argument ending in ':*'
Migratable(p) ==
    /\ ~Contains(p, LF) /\ ~Contains(p, CR)
    /\ Len(p) <= MAX_PATTERN_LENGTH
    /\ \E i \in ToolArgSplits(p) :
          Slice(p, 1, i) # MCP /\ EndsWith(Slice(p, i + 2, Len(p) - 1), <<":", "*">>)

\* p = ...:*) with that ':*' replaced by a space and '*'
TrailingColonStarReplaced(p) == Slice(p, 1, Len(p) - 3) \o <<" ", "*", ")">>

---------------------------------------------------------------------------
(* Claims about the grammar, checked under SpecGrammar *)

\* C6: whenever migrate returns a value for a pattern, classify accepts that
\* value; this covers patterns at the 500-character limit and arguments that
\* contain ':*' several times.
C6_MigratedClassifies ==
    (migrateResult.done /\ migrateResult.value # None)
        => validate_permission_pattern(migrateResult.value).valid

\* C6 witness: a pattern of exactly 500 characters has been migrated
C6_Witness ==
    /\ migrateResult.done
    /\ migrateResult.value # None
    /\ Len(pattern) = MAX_PATTERN_LENGTH

C8_MigrateExactly ==
    migrateResult.done =>
        /\ Migratable(pattern)
              => migrateResult.value = TrailingColonStarReplaced(pattern)
        /\ ~Migratable(pattern) => migrateResult.value = None
        /\ Accepted(pattern) => migrateResult.value = None
        /\ (Len(pattern) >= 4 /\ Slice(pattern, 1, 4) = MCP \o <<"(">>)
              => migrateResult.value = None

\* C8 witness: 'Bash(npm run:*)' has been migrated to 'Bash(npm run *)'
C8_Witness ==
    /\ migrateResult.done
    /\ pattern = ExBashNpmRunColonStar
    /\ migrateResult.value = ExBashNpmRunStar

---------------------------------------------------------------------------
(* pattern_utils.py: sanitize_permission_rules *)

Categories == <<"allow", "ask", "deny">>

ReasonNotString == <<"Pattern is not a string">>

NoChange == [clean |-> <<>>, migrated |-> <<>>, removed |-> <<>>]

\* mutant: a pattern that cannot be migrated is kept instead of removed
SanitizeEntry_KeepInvalid(entry, category) ==
    IF ~IsStr(entry)
    THEN [NoChange EXCEPT !.removed =
            <<[pattern |-> PyStr(entry), category |-> category,
               reason |-> ReasonNotString]>>]
    ELSE IF validate_permission_pattern(entry.jval).valid
    THEN [NoChange EXCEPT !.clean = <<entry>>]
    ELSE IF /\ migrate_deprecated_pattern(entry.jval) # None
            /\ validate_permission_pattern(migrate_deprecated_pattern(entry.jval)).valid
    THEN [NoChange EXCEPT
            !.clean = <<JStr(migrate_deprecated_pattern(entry.jval))>>,
            !.migrated = <<[migrated |-> migrate_deprecated_pattern(entry.jval),
                            category |-> category,
                            original |-> entry.jval]>>]
    ELSE [NoChange EXCEPT !.clean = <<entry>>]

\* mutant: a migration is applied without being reported
SanitizeEntry_SilentMigration(entry, category) ==
    IF ~IsStr(entry)
    THEN [NoChange EXCEPT !.removed =
            <<[pattern |-> PyStr(entry), category |-> category,
               reason |-> ReasonNotString]>>]
    ELSE IF validate_permission_pattern(entry.jval).valid
    THEN [NoChange EXCEPT !.clean = <<entry>>]
    ELSE IF /\ migrate_deprecated_pattern(entry.jval) # None
            /\ validate_permission_pattern(migrate_deprecated_pattern(entry.jval)).valid
    THEN [NoChange EXCEPT
            !.clean = <<JStr(migrate_deprecated_pattern(entry.jval))>>]
    ELSE [NoChange EXCEPT !.removed =
            <<[pattern |-> entry.jval, category |-> category,
               reason |-> validate_permission_pattern(entry.jval).error]>>]

\* one iteration of the loop over a category's rules: what the entry adds to
\* clean_rules, migrated and removed
SanitizeEntry(entry, category) ==
    IF ~IsStr(entry)
    THEN [NoChange EXCEPT !.removed =
            <<[pattern |-> PyStr(entry), category |-> category,
               reason |-> ReasonNotString]>>]
    ELSE IF validate_permission_pattern(entry.jval).valid
    THEN [NoChange EXCEPT !.clean = <<entry>>]
    ELSE IF /\ migrate_deprecated_pattern(entry.jval) # None
            /\ validate_permission_pattern(migrate_deprecated_pattern(entry.jval)).valid
    THEN [NoChange EXCEPT
            !.clean = <<JStr(migrate_deprecated_pattern(entry.jval))>>,
            !.migrated = <<[migrated |-> migrate_deprecated_pattern(entry.jval),
                            category |-> category,
                            original |-> entry.jval]>>]
    ELSE [NoChange EXCEPT !.removed =
            <<[pattern |-> entry.jval, category |-> category,
               reason |-> validate_permission_pattern(entry.jval).error]>>]

\* the loop over the rules of one category, in order
RECURSIVE SanitizeRules(_, _)
SanitizeRules(rules, category) ==
    IF Len(rules) = 0 THEN NoChange
    ELSE LET first == SanitizeEntry(Head(rules), category)
             rest == SanitizeRules(Tail(rules), category)
         IN  [clean |-> first.clean \o rest.clean,
              migrated |-> first.migrated \o rest.migrated,
              removed |-> first.removed \o rest.removed]

\* the loop over the categories from index c on; acc is the result so far
RECURSIVE SanitizeCategories(_, _, _)
SanitizeCategories(permissions, c, acc) ==
    IF c > Len(Categories) THEN acc
    ELSE LET category == Categories[c]
             rules == Get(permissions, category)
         IN  IF ~IsList(rules) THEN SanitizeCategories(permissions, c + 1, acc)
             ELSE LET r == SanitizeRules(rules.jval, category)
                  IN  SanitizeCategories(permissions, c + 1,
                        [migrated |-> acc.migrated \o r.migrated,
                         removed |-> acc.removed \o r.removed,
                         sanitized_settings |->
                            Put(acc.sanitized_settings, "permissions",
                                Put(Get(acc.sanitized_settings, "permissions"),
                                    category, JList(r.clean)))])

sanitize_permission_rules(settings) ==
    IF ~IsDict(Get(settings, "permissions"))
    THEN [migrated |-> <<>>, removed |-> <<>>, sanitized_settings |-> settings]
    ELSE SanitizeCategories(Get(settings, "permissions"), 1,
            [migrated |-> <<>>, removed |-> <<>>, sanitized_settings |-> settings])

---------------------------------------------------------------------------
(* Inputs of the sanitize specification *)

BashLsStar == <<"B", "a", "s", "h", "(", "l", "s", " ", "*", ")">>
BashLsColonStar == <<"B", "a", "s", "h", "(", "l", "s", ":", "*", ")">>
TaskX == <<"T", ":", "x">>
McpColonStar == MCP \o <<"(", "s", ":", "*", ")">>

\* entries of a rule list: valid, deprecated, invalid beyond repair, the MCP
\* exemption, and non-strings
SanitizeEntries ==
    {JStr(BashLsStar), JStr(BashLsColonStar), JStr(TaskX), JStr(McpColonStar),
     JNum(42), JNull}

RuleLists(entries, n) == UNION {[1..len -> entries] : len \in 0..n}

\* the list of the specification's example
ExampleAllow == <<JStr(BashLsStar), JStr(BashLsColonStar), JNum(42)>>

\* a category that is absent
Absent == [jtype |-> "absent", jval |-> 0]

SanitizeAllow ==
    {JList(l) : l \in RuleLists(SanitizeEntries, MaxRules) \cup {ExampleAllow}}
        \cup {Absent}

SanitizeAsk ==
    {Absent, JList(<<>>), JList(<<JStr(BashLsColonStar)>>),
     JList(<<JNum(42), JStr(BashLsStar)>>), JStr(BashLsColonStar)}

SanitizeDeny ==
    {JList(l) : l \in RuleLists({JStr(BashLsColonStar), JStr(TaskX), JStr(BashLsStar)}, 1)}
        \cup {Absent, JNull, JMap([x \in {"a"} |-> JStr(BashLsColonStar)])}

\* a permissions mapping with the categories that are present
Permissions(allow, ask, deny, mode) ==
    LET given == [allow |-> allow, ask |-> ask, deny |-> deny, defaultMode |-> mode]
        keys == {key \in DOMAIN given : given[key] # Absent}
    IN  JMap([key \in keys |-> given[key]])

Model == <<"o", "p", "u", "s">>

SanitizeInputs ==
    {JMap([permissions |-> Permissions(a, b, d, JStr(<<"p", "l", "a", "n">>)),
           model |-> JStr(Model)]) :
        a \in SanitizeAllow, b \in SanitizeAsk, d \in SanitizeDeny}
    \cup {JMap([permissions |-> Permissions(a, Absent, Absent, Absent)]) :
            a \in SanitizeAllow}
    \cup {EmptyMap,
          JMap([model |-> JStr(Model)]),
          JMap([permissions |-> EmptyMap]),
          JMap([permissions |-> JList(<<JStr(BashLsColonStar)>>)]),
          JMap([permissions |-> JStr(BashLsColonStar)])}

---------------------------------------------------------------------------
(* Specification of sanitization: sanitize one settings document *)

InitSanitize ==
    /\ sanIn \in SanitizeInputs
    /\ sanOut = NotRun
    /\ docs = NoDocs
    /\ GrammarIdle /\ ResolveIdle /\ EvalIdle /\ WriteIdle /\ DryRunIdle /\ RaceIdle /\ MatchIdle

Sanitize ==
    /\ ~sanOut.done
    /\ sanOut' = Done(sanitize_permission_rules(sanIn))
    /\ UNCHANGED <<validation, again, proc, observed, matchResult, op, writes, docs, pattern, classifyResult, migrateResult, sanIn,
                   resolveReq, resolved, evalReq, evalResult>>

NextSanitize == Sanitize

SpecSanitize == InitSanitize /\ [][NextSanitize]_vars

---------------------------------------------------------------------------
(* Sanitization as the specification text states it *)

\* the one way an entry of a rule list is handled
Disposition(entry) ==
    IF ~IsStr(entry) THEN "not a string"
    ELSE IF validate_permission_pattern(entry.jval).valid THEN "kept"
    ELSE IF /\ migrate_deprecated_pattern(entry.jval) # None
            /\ validate_permission_pattern(migrate_deprecated_pattern(entry.jval)).valid
         THEN "migrated"
    ELSE "invalid"

\* the positions of a list whose entries are handled in one of the given ways
Positions(list, ways) == {i \in 1..Len(list) : Disposition(list[i]) \in ways}

\* the j-th smallest element of a set of positions
Nth(S, j) == CHOOSE i \in S : Cardinality({x \in S : x <= i}) = j

\* the category's rule list in a settings document, <<>> when there is none
RuleList(settings, category) ==
    IF /\ IsDict(settings)
       /\ IsDict(Get(settings, "permissions"))
       /\ IsList(Get(Get(settings, "permissions"), category))
    THEN Get(Get(settings, "permissions"), category).jval
    ELSE <<>>

OfCategory(records, category) ==
    SelectSeq(records, LAMBDA r : r.category = category)

\* what sanitize must return for one category of the input document
CategoryHandled(input, output, category) ==
    LET in == RuleList(input, category)
        out == RuleList(output.sanitized_settings, category)
        mig == OfCategory(output.migrated, category)
        rem == OfCategory(output.removed, category)
        kept == Positions(in, {"kept", "migrated"})
        moved == Positions(in, {"migrated"})
        dropped == Positions(in, {"not a string", "invalid"})
    IN  /\ Len(out) = Cardinality(kept)
        /\ Len(mig) = Cardinality(moved)
        /\ Len(rem) = Cardinality(dropped)
        /\ Len(out) + Len(rem) = Len(in)
        /\ \A j \in 1..Len(out) :
              LET e == in[Nth(kept, j)]
              IN  out[j] = IF Disposition(e) = "kept" THEN e
                           ELSE JStr(TrailingColonStarReplaced(e.jval))
        /\ \A j \in 1..Len(mig) :
              LET e == in[Nth(moved, j)]
              IN  mig[j] = [migrated |-> TrailingColonStarReplaced(e.jval),
                            category |-> category,
                            original |-> e.jval]
        /\ \A j \in 1..Len(rem) :
              LET e == in[Nth(dropped, j)]
              IN  rem[j] = IF Disposition(e) = "not a string"
                           THEN [pattern |-> PyStr(e), category |-> category,
                                 reason |-> ReasonNotString]
                           ELSE [pattern |-> e.jval, category |-> category,
                                 reason |-> validate_permission_pattern(e.jval).error]

---------------------------------------------------------------------------
(* Claims about sanitization, checked under SpecSanitize *)

\* C9: in the document sanitize returns, every entry of the allow, ask and
\* deny lists is a string that classify accepts, whatever the input was.
C9_SanitizedEntriesClassify ==
    sanOut.done =>
        \A c \in {"allow", "ask", "deny"} :
            LET out == RuleList(sanOut.value.sanitized_settings, c)
            IN  \A i \in 1..Len(out) :
                    /\ IsStr(out[i])
                    /\ validate_permission_pattern(out[i].jval).valid

\* C9 witness: a list holding an unrepairable and a deprecated pattern has
\* been sanitized down to the migrated pattern
C9_Witness ==
    /\ sanOut.done
    /\ RuleList(sanIn, "allow") = <<JStr(TaskX), JStr(BashLsColonStar)>>
    /\ RuleList(sanOut.value.sanitized_settings, "allow") = <<JStr(BashLsStar)>>

\* C10: each entry of each list is handled in exactly one way and every
\* correction is reported: a non-string is dropped and reported in removed as
\* not a string; a valid string is kept unchanged; an invalid string that
\* migrates to a valid form is replaced in place and reported in migrated; any
\* other invalid string is dropped and reported in removed with the
\* classification error.  Kept entries keep their order, duplicates are not
\* merged, and per list kept + removed = input length.
C10_EveryEntryHandledOnce ==
    sanOut.done =>
        /\ \A c \in {"allow", "ask", "deny"} :
              CategoryHandled(sanIn, sanOut.value, c)
        /\ \A i \in 1..Len(sanOut.value.migrated) :
              sanOut.value.migrated[i].category \in {"allow", "ask", "deny"}
        /\ \A i \in 1..Len(sanOut.value.removed) :
              sanOut.value.removed[i].category \in {"allow", "ask", "deny"}

\* C10 witness: the example allow = ["Bash(ls *)", "Bash(ls:*)", 42] has been
\* sanitized to ["Bash(ls *)", "Bash(ls *)"] with one migration and one removal
C10_Witness ==
    /\ sanOut.done
    /\ RuleList(sanIn, "allow") = ExampleAllow
    /\ RuleList(sanOut.value.sanitized_settings, "allow")
          = <<JStr(BashLsStar), JStr(BashLsStar)>>
    /\ OfCategory(sanOut.value.migrated, "allow")
          = <<[migrated |-> BashLsStar, category |-> "allow",
               original |-> BashLsColonStar]>>
    /\ OfCategory(sanOut.value.removed, "allow")
          = <<[pattern |-> <<"4", "2">>, category |-> "allow",
               reason |-> ReasonNotString]>>

---------------------------------------------------------------------------
(* config_service.py: scope resolution *)

\* Settings scope priority (highest to lowest)
SCOPE_PRIORITY == <<"managed", "local", "project", "user">>

\* a project_path: None, the empty string, or the path of the project
ProjectPath == <<"/", "p">>
ProjectPaths == {None, <<>>, ProjectPath}

\* truth value of an Optional[str]
Truthy(s) == s # None /\ Len(s) > 0

\* A dot-separated path is the sequence of its segments.  key.split("."): the
\* segments of a key; only the key "a.b" of the model contains a dot.
KeySegments(key) == IF key = "a.b" THEN <<"a", "b">> ELSE <<key>>

\* get_all_scoped_settings: project and local are read only for a project
get_all_scoped_settings(stored, project_path) ==
    [t \in Tiers |->
        IF t \in {"project", "local"} /\ ~Truthy(project_path) THEN EmptyMap
        ELSE stored[t]]

\* _flatten_keys(d, parent_key): the dot-notation keys of the leaves of d
RECURSIVE _flatten_keys(_, _)
_flatten_keys(d, parent_key) ==
    UNION {IF IsDict(d.jval[key])
           THEN _flatten_keys(d.jval[key], parent_key \o KeySegments(key))
           ELSE {parent_key \o KeySegments(key)} : key \in DOMAIN d.jval}

\* _get_nested_value(d, key) from part i of key.split(".") on: (value, found)
RECURSIVE GetNestedFrom(_, _, _)
GetNestedFrom(current, parts, i) ==
    IF i > Len(parts) THEN [value |-> current, found |-> TRUE]
    ELSE IF IsDict(current) /\ (\E key \in DOMAIN current.jval : key = parts[i])
         THEN GetNestedFrom(current.jval[parts[i]], parts, i + 1)
    ELSE [value |-> JNull, found |-> FALSE]

_get_nested_value(d, key) == GetNestedFrom(d, key, 1)

\* source_scope before any scope was found
NoScope == "None"

NoValues == [t \in {} |-> JNull]

\* the loop of _resolve_key from scope i of SCOPE_PRIORITY on
RECURSIVE ResolveFrom(_, _, _, _)
ResolveFrom(key, scoped_settings, i, acc) ==
    IF i > Len(SCOPE_PRIORITY) THEN acc
    ELSE LET scope == SCOPE_PRIORITY[i]
             got == _get_nested_value(scoped_settings[scope], key)
             values == [t \in DOMAIN acc.values_by_scope \cup {scope} |->
                          IF t = scope THEN got.value ELSE acc.values_by_scope[t]]
         IN  IF ~got.found THEN ResolveFrom(key, scoped_settings, i + 1, acc)
             ELSE IF acc.effective_value = JNull
             THEN ResolveFrom(key, scoped_settings, i + 1,
                    [effective_value |-> got.value, source_scope |-> scope,
                     values_by_scope |-> values])
             ELSE ResolveFrom(key, scoped_settings, i + 1,
                    [acc EXCEPT !.values_by_scope = values])

_resolve_key(key, scoped_settings) ==
    ResolveFrom(key, scoped_settings, 1,
        [effective_value |-> JNull, source_scope |-> NoScope,
         values_by_scope |-> NoValues])

\* get_resolved_config(project_path)["resolved"]
get_resolved_config(stored, project_path) ==
    LET scoped_settings == get_all_scoped_settings(stored, project_path)
        all_keys == UNION {_flatten_keys(scoped_settings[t], <<>>) : t \in Tiers}
    IN  [key \in all_keys |-> _resolve_key(key, scoped_settings)]

---------------------------------------------------------------------------
(* Specification of resolution: resolve the four stored documents *)

Fields1(key, value) == JMap([x \in {key} |-> value])

ResolveDocs ==
    {EmptyMap,
     Fields1("a", Fields1("b", JNum(1))),
     Fields1("a", Fields1("b", JNum(2))),
     Fields1("a", Fields1("b", JNull)),
     Fields1("a", JNum(5)),
     Fields1("a", EmptyMap),
     Fields1("a.b", JNum(3)),
     Fields1("b", JNull),
     JMap([a |-> Fields1("b", JNum(1)), b |-> JNum(2)])}

InitResolve ==
    /\ docs \in [Tiers -> ResolveDocs]
    /\ resolveReq = Unset
    /\ resolved = NotRun
    /\ GrammarIdle /\ SanitizeIdle /\ EvalIdle /\ WriteIdle /\ DryRunIdle /\ RaceIdle /\ MatchIdle

Resolve(project_path) ==
    /\ ~resolved.done
    /\ resolveReq' = project_path
    /\ resolved' = Done(get_resolved_config(docs, project_path))
    /\ UNCHANGED <<validation, again, proc, observed, matchResult, op, writes, docs, pattern, classifyResult, migrateResult, sanIn, sanOut,
                   evalReq, evalResult>>

NextResolve == \E project_path \in ProjectPaths : Resolve(project_path)

SpecResolve == InitResolve /\ [][NextResolve]_vars

---------------------------------------------------------------------------
(* Resolution as the specification text states it *)

IsPrefix(s, t) == Len(s) <= Len(t) /\ Slice(t, 1, Len(s)) = s

\* the values a document holds at a dot-separated path: the values reached by
\* descending through keys that spell the path
RECURSIVE ValuesAt(_, _)
ValuesAt(j, path) ==
    IF Len(path) = 0 THEN {j}
    ELSE IF ~IsDict(j) THEN {}
    ELSE UNION {ValuesAt(j.jval[key],
                         Slice(path, Len(KeySegments(key)) + 1, Len(path))) :
                key \in {x \in DOMAIN j.jval : IsPrefix(KeySegments(x), path)}}

\* a document defines a path when it holds a value there, null included
Defines(doc, path) == ValuesAt(doc, path) # {}

ValueOf(doc, path) == CHOOSE value \in ValuesAt(doc, path) : TRUE

PathUniverse == Strings({"a", "b"}, 3)

\* the leaf paths of a document: the paths at which it holds a non-mapping
LeafPaths(doc) ==
    {path \in PathUniverse : \E value \in ValuesAt(doc, path) : ~IsDict(value)}

\* the tier documents a resolve request queries
Queried == get_all_scoped_settings(docs, resolveReq)

ClaimedOrder == <<"managed", "local", "project", "user">>

\* whether some key of the document contains a dot
RECURSIVE HasDottedKey(_)
HasDottedKey(j) ==
    /\ IsDict(j)
    /\ \E key \in DOMAIN j.jval :
          Len(KeySegments(key)) > 1 \/ HasDottedKey(j.jval[key])

---------------------------------------------------------------------------
(* Claims about resolution, checked under SpecResolve *)

\* C4: for every resolved path, effectiveValue and sourceTier are the value
\* and the name of the first tier, in the order managed, local, project, user,
\* whose document defines the path; a tier that defines it with an explicit
\* null counts, so that effectiveValue is null and sourceTier is that tier.
\* Stated here for documents whose keys contain no dot, where the defect of C5
\* does not interfere: the code still violates it.
C4_FirstDefiningTierWins ==
    (resolved.done /\ \A t \in Tiers : ~HasDottedKey(Queried[t])) =>
        \A path \in DOMAIN resolved.value :
            LET defining == {i \in 1..Len(ClaimedOrder) :
                                Defines(Queried[ClaimedOrder[i]], path)}
                first == ClaimedOrder[Min(defining)]
            IN  defining # {} =>
                    /\ resolved.value[path].source_scope = first
                    /\ resolved.value[path].effective_value
                          = ValueOf(Queried[first], path)

\* C5: for every resolved path, valuesByTier holds exactly the tiers whose
\* document defines the path, each with its own value, and the resolved paths
\* are exactly the union of the leaf paths of the tier documents.
C5_ValuesByTierExact ==
    resolved.done =>
        /\ DOMAIN resolved.value = UNION {LeafPaths(Queried[t]) : t \in Tiers}
        /\ \A path \in DOMAIN resolved.value :
              /\ DOMAIN resolved.value[path].values_by_scope
                    = {t \in Tiers : Defines(Queried[t], path)}
              /\ \A t \in DOMAIN resolved.value[path].values_by_scope :
                    resolved.value[path].values_by_scope[t]
                        = ValueOf(Queried[t], path)

---------------------------------------------------------------------------
(* permission_service.py: list_permissions *)

\* the characters of the scope and type names, as they enter a rule's id
NameChars(name) ==
    CASE name = "user" -> <<"u", "s", "e", "r">>
      [] name = "project" -> <<"p", "r", "o", "j", "e", "c", "t">>
      [] name = "allow" -> <<"a", "l", "l", "o", "w">>
      [] name = "ask" -> <<"a", "s", "k">>
      [] name = "deny" -> <<"d", "e", "n", "y">>
      [] name = "managed" -> <<"m", "a", "n", "a", "g", "e", "d">>

ModeDefault == <<"d", "e", "f", "a", "u", "l", "t">>
ModeAcceptEdits == <<"a", "c", "c", "e", "p", "t", "E", "d", "i", "t", "s">>
ModeDontAsk == <<"d", "o", "n", "t", "A", "s", "k">>
ModePlan == <<"p", "l", "a", "n">>

\* uuid5(NAMESPACE_DNS, f"{scope}-{type}-{pattern}"): the hash is taken to be
\* injective, so the id is the name it hashes
RuleId(scope, type, p) ==
    NameChars(scope) \o <<"-">> \o NameChars(type) \o <<"-">> \o p

\* PermissionSettings(): the defaults of the schema
DefaultSettings ==
    [defaultMode |-> JStr(ModeDefault),
     additionalDirectories |-> JNull,
     disableBypassPermissionsMode |-> JBool(FALSE)]

\* a list in unspecified order holding exactly the given elements: list(set(...))
JSetList(elements) == [jtype |-> "setlist", jval |-> elements]

Elements(list) == {list[i] : i \in 1..Len(list)}

\* mutant: every listed id is computed with the user scope
RulesOf_UserIds(permissions, scope, type) ==
    IF type \notin DOMAIN permissions.jval THEN <<>>
    ELSE [i \in 1..Len(permissions.jval[type].jval) |->
            [pattern |-> permissions.jval[type].jval[i].jval,
             scope |-> scope,
             type |-> type,
             id |-> RuleId("user", type, permissions.jval[type].jval[i].jval)]]

\* the rules of one category of a permissions section, in document order
RulesOf(permissions, scope, type) ==
    IF type \notin DOMAIN permissions.jval THEN <<>>
    ELSE [i \in 1..Len(permissions.jval[type].jval) |->
            [pattern |-> permissions.jval[type].jval[i].jval,
             scope |-> scope,
             type |-> type,
             id |-> RuleId(scope, type, permissions.jval[type].jval[i].jval)]]

ScopeRules(permissions, scope) ==
    RulesOf(permissions, scope, "allow") \o RulesOf(permissions, scope, "ask")
        \o RulesOf(permissions, scope, "deny")

\* whether the settings file of a scope is read and has a permissions section
HasPermissions(doc) == Cardinality(DOMAIN doc.jval) > 0 /\ HasKey(doc, "permissions")

\* the user block: the fields present overwrite the defaults
UserSettings(settings, permissions) ==
    [defaultMode |->
        IF HasKey(permissions, "defaultMode")
        THEN permissions.jval["defaultMode"] ELSE settings.defaultMode,
     additionalDirectories |->
        IF HasKey(permissions, "additionalDirectories")
        THEN permissions.jval["additionalDirectories"]
        ELSE settings.additionalDirectories,
     disableBypassPermissionsMode |->
        IF HasKey(permissions, "disableBypassPermissionsMode")
        THEN permissions.jval["disableBypassPermissionsMode"]
        ELSE settings.disableBypassPermissionsMode]

\* truth value of an Optional[List[str]]
NonEmptyList(j) ==
    \/ (j.jtype = "list" /\ Len(j.jval) > 0)
    \/ (j.jtype = "setlist" /\ j.jval # {})

\* mutant: the project's directories replace the user's
ProjectSettings_DirsReplaced(settings, permissions) ==
    [defaultMode |->
        IF HasKey(permissions, "defaultMode")
        THEN permissions.jval["defaultMode"] ELSE settings.defaultMode,
     additionalDirectories |->
        IF ~HasKey(permissions, "additionalDirectories")
        THEN settings.additionalDirectories
        ELSE permissions.jval["additionalDirectories"],
     disableBypassPermissionsMode |->
        IF HasKey(permissions, "disableBypassPermissionsMode")
        THEN permissions.jval["disableBypassPermissionsMode"]
        ELSE settings.disableBypassPermissionsMode]

\* the project block: mode and flag override, directories merge
ProjectSettings(settings, permissions) ==
    [defaultMode |->
        IF HasKey(permissions, "defaultMode")
        THEN permissions.jval["defaultMode"] ELSE settings.defaultMode,
     additionalDirectories |->
        IF ~HasKey(permissions, "additionalDirectories")
        THEN settings.additionalDirectories
        ELSE IF NonEmptyList(settings.additionalDirectories)
        THEN JSetList(Elements(settings.additionalDirectories.jval)
                \cup Elements(permissions.jval["additionalDirectories"].jval))
        ELSE permissions.jval["additionalDirectories"],
     disableBypassPermissionsMode |->
        IF HasKey(permissions, "disableBypassPermissionsMode")
        THEN permissions.jval["disableBypassPermissionsMode"]
        ELSE settings.disableBypassPermissionsMode]

\* mutant: the project scope is never read
list_permissions_UserOnly(stored, project_path) ==
    IF HasPermissions(stored["user"])
    THEN [rules |-> ScopeRules(stored["user"].jval["permissions"], "user"),
          settings |-> UserSettings(DefaultSettings,
                                    stored["user"].jval["permissions"])]
    ELSE [rules |-> <<>>, settings |-> DefaultSettings]

\* mutant: the user's defaultMode wins over the project's
list_permissions_UserModeWins(stored, project_path) ==
    LET user == IF HasPermissions(stored["user"])
                THEN [rules |-> ScopeRules(stored["user"].jval["permissions"], "user"),
                      settings |-> UserSettings(DefaultSettings,
                                        stored["user"].jval["permissions"])]
                ELSE [rules |-> <<>>, settings |-> DefaultSettings]
    IN  IF Truthy(project_path) /\ HasPermissions(stored["project"])
        THEN [rules |-> user.rules
                  \o ScopeRules(stored["project"].jval["permissions"], "project"),
              settings |-> user.settings]
        ELSE user

\* mutant: the rules of the managed scope are listed as well
list_permissions_ReadsManaged(stored, project_path) ==
    LET user == IF HasPermissions(stored["user"])
                THEN [rules |-> ScopeRules(stored["user"].jval["permissions"], "user"),
                      settings |-> UserSettings(DefaultSettings,
                                        stored["user"].jval["permissions"])]
                ELSE [rules |-> <<>>, settings |-> DefaultSettings]
        managed == IF HasPermissions(stored["managed"])
                   THEN ScopeRules(stored["managed"].jval["permissions"], "managed")
                   ELSE <<>>
    IN  IF Truthy(project_path) /\ HasPermissions(stored["project"])
        THEN [rules |-> managed \o user.rules
                  \o ScopeRules(stored["project"].jval["permissions"], "project"),
              settings |-> ProjectSettings(user.settings,
                              stored["project"].jval["permissions"])]
        ELSE [rules |-> managed \o user.rules, settings |-> user.settings]

\* list_permissions(project_path): rules of the user scope, then of the
\* project scope when a project_path is given; documents are those a well-formed
\* settings file holds (lists of strings)
list_permissions(stored, project_path) ==
    LET user == IF HasPermissions(stored["user"])
                THEN [rules |-> ScopeRules(stored["user"].jval["permissions"], "user"),
                      settings |-> UserSettings(DefaultSettings,
                                        stored["user"].jval["permissions"])]
                ELSE [rules |-> <<>>, settings |-> DefaultSettings]
    IN  IF Truthy(project_path) /\ HasPermissions(stored["project"])
        THEN [rules |-> user.rules
                  \o ScopeRules(stored["project"].jval["permissions"], "project"),
              settings |-> ProjectSettings(user.settings,
                              stored["project"].jval["permissions"])]
        ELSE user

---------------------------------------------------------------------------
(* permission_service.py: _matches_pattern *)

\* fnmatch: the position of the "]" that closes the class opened at pat[j],
\* 0 when there is none (the "[" is then an ordinary character)
ClassEnd(pat, j) ==
    LET afterBang == IF j + 1 <= Len(pat) /\ pat[j + 1] = "!" THEN j + 2 ELSE j + 1
        start == IF afterBang <= Len(pat) /\ pat[afterBang] = "]"
                 THEN afterBang + 1 ELSE afterBang
        closing == {x \in start..Len(pat) : pat[x] = "]"}
    IN  IF closing = {} THEN 0 ELSE Min(closing)

\* fnmatch: membership in the class [stuff]; a leading "!" negates.  Ranges
\* (a "-" inside the class) are outside the alphabet of the model.
InClass(c, stuff) ==
    IF stuff[1] = "!" THEN c \notin Elements(Tail(stuff))
    ELSE c \in Elements(stuff)

\* fnmatch.fnmatchcase(name[i..], pat[j..])
RECURSIVE GlobFrom(_, _, _, _)
GlobFrom(name, i, pat, j) ==
    IF j > Len(pat) THEN i > Len(name)
    ELSE IF pat[j] = "*"
         THEN \E x \in i..(Len(name) + 1) : GlobFrom(name, x, pat, j + 1)
    ELSE IF pat[j] = "?"
         THEN i <= Len(name) /\ GlobFrom(name, i + 1, pat, j + 1)
    ELSE IF pat[j] = "[" /\ ClassEnd(pat, j) > 0
         THEN /\ i <= Len(name)
              /\ InClass(name[i], Slice(pat, j + 1, ClassEnd(pat, j) - 1))
              /\ GlobFrom(name, i + 1, pat, ClassEnd(pat, j) + 1)
    ELSE i <= Len(name) /\ name[i] = pat[j] /\ GlobFrom(name, i + 1, pat, j + 1)

\* fnmatch.fnmatch(name, pat) on a POSIX system (normcase is the identity)
fnmatch(name, pat) == GlobFrom(name, 1, pat, 1)

\* [A-Za-z0-9_\-\*]
SubcommandChar == IdentChar \cup {"-", "*"}

SubcommandFull(s) ==
    LET n == IdentPrefixLen(s)
    IN  IF /\ n >= 1
           /\ Len(s) >= n + 2
           /\ s[n + 1] = ":"
           /\ \A i \in (n + 2)..Len(s) : s[i] \in SubcommandChar
        THEN [matched |-> TRUE, tool |-> Slice(s, 1, n),
              arg |-> Slice(s, n + 2, Len(s))]
        ELSE NoMatch

\* re.match(r"^([A-Za-z_][A-Za-z0-9_]*):([A-Za-z0-9_\-\*]+)$", rule_pattern)
SubcommandMatch(s) ==
    IF SubcommandFull(s).matched THEN SubcommandFull(s)
    ELSE IF Len(s) > 0 /\ s[Len(s)] = LF THEN SubcommandFull(Front(s))
    ELSE NoMatch

\* re.split(r"[\s:]", argument, maxsplit=1)[0]
FirstWord(argument) ==
    LET stops == {i \in 1..Len(argument) : argument[i] \in Whitespace \cup {":"}}
    IN  IF stops = {} THEN argument ELSE Slice(argument, 1, Min(stops) - 1)

Star == <<"*">>

_matches_pattern(rule_pattern, tool, argument) ==
    LET m == ToolArgMatch(rule_pattern, FALSE)
        sub == SubcommandMatch(rule_pattern)
    IN  IF m.matched
        THEN IF m.tool # tool /\ m.tool # Star THEN FALSE
             ELSE IF argument = None THEN m.arg = Star
             ELSE fnmatch(argument, m.arg)
        ELSE IF sub.matched
        THEN IF sub.tool # tool THEN FALSE
             ELSE IF argument = None THEN sub.arg = Star
             ELSE fnmatch(FirstWord(argument), sub.arg)
        ELSE rule_pattern = tool \/ rule_pattern = Star

---------------------------------------------------------------------------
(* permission_service.py: evaluate_permission *)

\* for rule in rules: if rule.type == type and _matches_pattern(...)
AnyRuleMatches(rules, type, tool, argument) ==
    \E i \in 1..Len(rules) :
        rules[i].type = type /\ _matches_pattern(rules[i].pattern, tool, argument)

\* mutant: allow rules are scanned before ask rules
evaluate_AllowBeforeAsk(stored, tool, argument, project_path) ==
    LET rules_response == list_permissions(stored, project_path)
        rules == rules_response.rules
    IN  IF AnyRuleMatches(rules, "deny", tool, argument) THEN "deny"
        ELSE IF AnyRuleMatches(rules, "allow", tool, argument) THEN "allow"
        ELSE IF AnyRuleMatches(rules, "ask", tool, argument) THEN "ask"
        ELSE IF rules_response.settings.defaultMode = JStr(ModeDontAsk) THEN "allow"
        ELSE "ask"

evaluate_permission(stored, tool, argument, project_path) ==
    LET rules_response == list_permissions(stored, project_path)
        rules == rules_response.rules
    IN  IF AnyRuleMatches(rules, "deny", tool, argument) THEN "deny"
        ELSE IF AnyRuleMatches(rules, "ask", tool, argument) THEN "ask"
        ELSE IF AnyRuleMatches(rules, "allow", tool, argument) THEN "allow"
        ELSE IF rules_response.settings.defaultMode = JStr(ModeDontAsk) THEN "allow"
        ELSE "ask"

---------------------------------------------------------------------------
(* Specification of evaluation: evaluate one invocation against the stored
   user and project documents *)

BashRmStar == <<"B", "(", "r", "m", " ", "*", ")">>
BashStar == <<"B", "(", "*", ")">>
BashColonRm == <<"B", ":", "r", "m">>
BashName == <<"B">>
ReadStar == <<"R", "(", "*", ")">>

EvalDeny == {<<>>, <<BashRmStar>>, <<ReadStar, BashRmStar>>}
EvalAsk == {<<>>, <<BashStar>>, <<BashColonRm>>}
EvalAllow == {<<>>, <<Star>>, <<BashName, BashStar>>}
EvalModes == {Absent, JStr(ModeDontAsk), JStr(ModePlan)}

StrList(patterns) == JList([i \in 1..Len(patterns) |-> JStr(patterns[i])])

EvalDocs ==
    {JMap([permissions |->
            Permissions(StrList(allow), StrList(ask), StrList(deny), mode)]) :
        allow \in EvalAllow, ask \in EvalAsk, deny \in EvalDeny, mode \in EvalModes}
    \cup {EmptyMap,
          JMap([model |-> JStr(Model)]),
          JMap([permissions |-> JMap([defaultMode |-> JStr(ModeDefault)])]),
          JMap([permissions |-> JMap([defaultMode |-> JStr(ModeAcceptEdits)])])}

EvalTools == {<<"B">>, <<"R">>}
EvalArguments == {None, <<"r", "m", " ", "x">>, <<"l", "s">>}

InitEvaluate ==
    /\ docs \in {[managed |-> EmptyMap, local |-> EmptyMap, project |-> p, user |-> u] :
                    p \in EvalDocs, u \in EvalDocs}
    /\ evalReq = Unset
    /\ evalResult = NotRun
    /\ GrammarIdle /\ SanitizeIdle /\ ResolveIdle /\ WriteIdle /\ DryRunIdle /\ RaceIdle /\ MatchIdle

Evaluate(tool, argument, project_path) ==
    /\ ~evalResult.done
    /\ evalReq' = [tool |-> tool, argument |-> argument, project_path |-> project_path]
    /\ evalResult' = Done(evaluate_permission(docs, tool, argument, project_path))
    /\ UNCHANGED <<validation, again, proc, observed, matchResult, op, writes, docs, pattern, classifyResult, migrateResult, sanIn, sanOut,
                   resolveReq, resolved>>

NextEvaluate ==
    \E tool \in EvalTools, argument \in EvalArguments, project_path \in ProjectPaths :
        Evaluate(tool, argument, project_path)

SpecEvaluate == InitEvaluate /\ [][NextEvaluate]_vars

---------------------------------------------------------------------------
(* Evaluation, as the specification states it, over the stored documents *)

\* the tiers whose rules an evaluation reads: user, and project in a project
TiersRead == IF Truthy(evalReq.project_path) THEN {"user", "project"} ELSE {"user"}

\* the patterns a tier's document stores under a kind of rule
StoredPatterns(tier, kind) ==
    IF HasKey(docs[tier], "permissions")
       /\ HasKey(docs[tier].jval["permissions"], kind)
    THEN {entry.jval : entry \in Elements(docs[tier].jval["permissions"].jval[kind].jval)}
    ELSE {}

MatchingTiers(kind) ==
    {tier \in TiersRead :
        \E p \in StoredPatterns(tier, kind) :
            _matches_pattern(p, evalReq.tool, evalReq.argument)}

SomeRuleMatches(kind) == MatchingTiers(kind) # {}

StoresMode(tier) ==
    HasKey(docs[tier], "permissions")
        /\ HasKey(docs[tier].jval["permissions"], "defaultMode")

\* the merged defaultMode: the project's when it sets one, else the user's,
\* else unset
MergedMode ==
    IF "project" \in TiersRead /\ StoresMode("project")
    THEN docs["project"].jval["permissions"].jval["defaultMode"].jval
    ELSE IF StoresMode("user")
    THEN docs["user"].jval["permissions"].jval["defaultMode"].jval
    ELSE Unset

\* C1: once an invocation is evaluated, the answer is deny whenever a deny
\* rule of a tier that was read (user, or project in a project) matches it,
\* whatever ask or allow rules also match, wherever the rules stand in their
\* documents, and whatever the defaultMode
C1_DenyWins ==
    evalResult.done => (SomeRuleMatches("deny") => evalResult.value = "deny")

\* a deny rule of one tier beats a matching allow rule of the other tier and a
\* matching ask rule, under defaultMode dontAsk
C1_Witness ==
    /\ evalResult.done
    /\ evalResult.value = "deny"
    /\ MatchingTiers("deny") = {"project"}
    /\ "user" \in MatchingTiers("allow")
    /\ SomeRuleMatches("ask")
    /\ MergedMode = ModeDontAsk

\* C2: with no matching deny rule, the answer is ask if an ask rule matches,
\* even beside a matching allow rule and under dontAsk; a matching allow rule
\* gives allow only when neither a deny nor an ask rule matches, and an allow
\* answer under a mode other than dontAsk always comes from such a rule
C2_AskBeforeAllow ==
    evalResult.done =>
        /\ (~SomeRuleMatches("deny") /\ SomeRuleMatches("ask")
                => evalResult.value = "ask")
        /\ (~SomeRuleMatches("deny") /\ ~SomeRuleMatches("ask")
                /\ SomeRuleMatches("allow") => evalResult.value = "allow")
        /\ (evalResult.value = "allow" /\ MergedMode # ModeDontAsk
                => /\ SomeRuleMatches("allow")
                   /\ ~SomeRuleMatches("deny")
                   /\ ~SomeRuleMatches("ask"))

\* an ask rule and an allow rule both match, no deny rule does, the mode is
\* dontAsk, and the answer is ask
C2_Witness ==
    /\ evalResult.done
    /\ evalResult.value = "ask"
    /\ ~SomeRuleMatches("deny")
    /\ SomeRuleMatches("ask")
    /\ SomeRuleMatches("allow")
    /\ MergedMode = ModeDontAsk

\* C3: every evaluation answers allow, ask or deny; when no deny, ask or allow
\* rule matches, the answer is allow exactly when the merged defaultMode is
\* dontAsk and ask for every other mode, set or unset
C3_DefaultBranch ==
    evalResult.done =>
        /\ evalResult.value \in {"allow", "ask", "deny"}
        /\ (~SomeRuleMatches("deny") /\ ~SomeRuleMatches("ask")
                /\ ~SomeRuleMatches("allow")
            => /\ (evalResult.value = "allow" <=> MergedMode = ModeDontAsk)
               /\ (MergedMode # ModeDontAsk => evalResult.value = "ask"))

\* no rule matches although rules are stored, the project's dontAsk overrides
\* the user's plan, and the answer is allow
C3_Witness ==
    /\ evalResult.done
    /\ evalResult.value = "allow"
    /\ ~SomeRuleMatches("deny")
    /\ ~SomeRuleMatches("ask")
    /\ ~SomeRuleMatches("allow")
    /\ StoredPatterns("user", "deny") # {}
    /\ StoresMode("user")
    /\ docs["user"].jval["permissions"].jval["defaultMode"].jval = ModePlan
    /\ MergedMode = ModeDontAsk

---------------------------------------------------------------------------
(* Stored settings files and the writes of permission_service.py *)

\* the settings files: one per tier, and the user's local settings file
Files == Tiers \cup {"user_local"}

\* Python's None where a string compared as a whole (a rule type) is expected
NoneStr == "None"

\* truth value of an Optional[str] compared as a whole
TruthyStr(s) == s # NoneStr /\ s # ""

RuleTypes == {"allow", "ask", "deny"}

\* what a write returns: the files afterwards, how it ended, what it returned
Returned(stored, outcome, result) ==
    [docs |-> stored, outcome |-> outcome, result |-> result]

Raised(stored, error) == Returned(stored, error, None)

\* the entries of permissions.allow of a document
StoredAllow(j) ==
    IF HasKey(j, "permissions") /\ HasKey(Get(j, "permissions"), "allow")
       /\ IsList(Get(Get(j, "permissions"), "allow"))
    THEN Get(Get(j, "permissions"), "allow").jval
    ELSE <<>>

\* a write that keeps the allow entries the file already holds
write_json_file_Merging(stored, file, settings, success) ==
    IF ~success THEN stored
    ELSE IF ~HasKey(settings, "permissions") THEN [stored EXCEPT ![file] = settings]
    ELSE [stored EXCEPT ![file] =
            Put(settings, "permissions",
                Put(Get(settings, "permissions"), "allow",
                    JList(StoredAllow(settings)
                          \o SelectSeq(StoredAllow(stored[file]),
                                       LAMBDA v : \A i \in 1..Len(StoredAllow(settings)) :
                                                     StoredAllow(settings)[i] # v))))]

\* write_json_file(path, settings): the file holds the document on success
\* and keeps its content on failure
write_json_file(stored, file, settings, success) ==
    IF success THEN [stored EXCEPT ![file] = settings] ELSE stored

\* value in list
InList(list, value) == \E i \in 1..Len(list.jval) : list.jval[i] = value

\* list.append(value) on a copy
ListAppend(list, value) == JList(Append(list.jval, value))

\* list.remove(value) on a copy: the first occurrence goes
ListRemove(list, value) ==
    LET first == Min({i \in 1..Len(list.jval) : list.jval[i] = value})
    IN  JList(Slice(list.jval, 1, first - 1)
                \o Slice(list.jval, first + 1, Len(list.jval)))

\* the permissions section with the three lists present
EnsureLists(settings) ==
    LET permissions == IF HasKey(settings, "permissions")
                       THEN settings.jval["permissions"] ELSE EmptyMap
    IN  JMap([key \in DOMAIN permissions.jval \cup RuleTypes |->
                IF key \in DOMAIN permissions.jval
                THEN permissions.jval[key] ELSE JList(<<>>)])

\* mutant: the duplicate check is skipped
add_permission_NoDuplicateCheck(stored, rule, project_path, success) ==
    IF rule.type \notin RuleTypes THEN Raised(stored, "InvalidType")
    ELSE IF ~validate_permission_pattern(rule.pattern).valid
    THEN Raised(stored, "InvalidPattern")
    ELSE IF rule.scope # "user" /\ ~Truthy(project_path)
    THEN Raised(stored, "ProjectPathRequired")
    ELSE LET file == IF rule.scope = "user" THEN "user" ELSE "project"
             permissions == EnsureLists(stored[file])
             added == Put(permissions, rule.type,
                          ListAppend(permissions.jval[rule.type], JStr(rule.pattern)))
         IN  IF ~success THEN Raised(stored, "IOError")
             ELSE Returned(
                    write_json_file(stored, file,
                        Put(stored[file], "permissions", added), success),
                    "ok",
                    [pattern |-> rule.pattern, scope |-> rule.scope,
                     type |-> rule.type,
                     id |-> RuleId(rule.scope, rule.type, rule.pattern)])

\* mutant: the pattern is not validated
add_permission_NoValidation(stored, rule, project_path, success) ==
    IF rule.type \notin RuleTypes THEN Raised(stored, "InvalidType")
    ELSE IF rule.scope # "user" /\ ~Truthy(project_path)
    THEN Raised(stored, "ProjectPathRequired")
    ELSE LET file == IF rule.scope = "user" THEN "user" ELSE "project"
             permissions == EnsureLists(stored[file])
             added == Put(permissions, rule.type,
                          ListAppend(permissions.jval[rule.type], JStr(rule.pattern)))
         IN  IF InList(permissions.jval[rule.type], JStr(rule.pattern))
             THEN Raised(stored, "AlreadyExists")
             ELSE IF ~success THEN Raised(stored, "IOError")
             ELSE Returned(
                    write_json_file(stored, file,
                        Put(stored[file], "permissions", added), success),
                    "ok",
                    [pattern |-> rule.pattern, scope |-> rule.scope,
                     type |-> rule.type,
                     id |-> RuleId(rule.scope, rule.type, rule.pattern)])

\* add_permission(rule, project_path); success is what write_json_file returns
add_permission(stored, rule, project_path, success) ==
    IF rule.type \notin RuleTypes THEN Raised(stored, "InvalidType")
    ELSE IF ~validate_permission_pattern(rule.pattern).valid
    THEN Raised(stored, "InvalidPattern")
    ELSE IF rule.scope # "user" /\ ~Truthy(project_path)
    THEN Raised(stored, "ProjectPathRequired")
    ELSE LET file == IF rule.scope = "user" THEN "user" ELSE "project"
             permissions == EnsureLists(stored[file])
             added == Put(permissions, rule.type,
                          ListAppend(permissions.jval[rule.type], JStr(rule.pattern)))
         IN  IF InList(permissions.jval[rule.type], JStr(rule.pattern))
             THEN Raised(stored, "AlreadyExists")
             ELSE IF ~success THEN Raised(stored, "IOError")
             ELSE Returned(
                    write_json_file(stored, file,
                        Put(stored[file], "permissions", added), success),
                    "ok",
                    [pattern |-> rule.pattern, scope |-> rule.scope,
                     type |-> rule.type,
                     id |-> RuleId(rule.scope, rule.type, rule.pattern)])

\* the first listed rule with the id in the scope, as a set of at most one rule
FindRule(stored, rule_id, scope, project_path) ==
    LET rules == list_permissions(stored, project_path).rules
        found == {i \in 1..Len(rules) :
                    rules[i].id = rule_id /\ rules[i].scope = scope}
    IN  IF found = {} THEN {} ELSE {rules[Min(found)]}

\* remove_permission after the lookup: existing holds the rule found, if any
RemoveFound(stored, existing, scope, project_path, success) ==
    IF existing = {} THEN Raised(stored, "NotFound")
    ELSE IF scope # "user" /\ ~Truthy(project_path)
    THEN Raised(stored, "ProjectPathRequired")
    ELSE LET existing_rule == CHOOSE rule \in existing : TRUE
             file == IF scope = "user" THEN "user" ELSE "project"
             settings == stored[file]
         IN  IF \/ ~HasKey(settings, "permissions")
                \/ ~HasKey(settings.jval["permissions"], existing_rule.type)
             THEN Raised(stored, "PermissionsNotFound")
             ELSE LET permissions == settings.jval["permissions"]
                      list == permissions.jval[existing_rule.type]
                      entry == JStr(existing_rule.pattern)
                      removed == IF InList(list, entry)
                                 THEN ListRemove(list, entry) ELSE list
                  IN  IF ~success THEN Raised(stored, "IOError")
                      ELSE Returned(
                             write_json_file(stored, file,
                                Put(settings, "permissions",
                                    Put(permissions, existing_rule.type, removed)),
                                success),
                             "ok", None)

\* remove_permission(rule_id, scope, project_path)
remove_permission(stored, rule_id, scope, project_path, success) ==
    RemoveFound(stored, FindRule(stored, rule_id, scope, project_path),
                scope, project_path, success)

\* the rule update_permission adds: the fields of the update where they are
\* truthy, those of the existing rule otherwise
MergedRule(existing_rule, rule_update, scope) ==
    [pattern |-> IF Truthy(rule_update.pattern)
                 THEN rule_update.pattern ELSE existing_rule.pattern,
     scope |-> scope,
     type |-> IF TruthyStr(rule_update.type)
              THEN rule_update.type ELSE existing_rule.type]

\* update_permission after the lookup: removed is what remove_permission
\* returned
UpdateFound(existing, removed, rule_update, scope, project_path, success) ==
    IF removed.outcome # "ok" THEN removed
    ELSE add_permission(removed.docs,
            MergedRule(CHOOSE rule \in existing : TRUE, rule_update, scope),
            project_path, success)

\* update_permission(rule_id, rule_update, scope, project_path): remove, then
\* add; success1 and success2 are what the two write_json_file calls return
update_permission(stored, rule_id, rule_update, scope, project_path, success1, success2) ==
    IF TruthyStr(rule_update.type) /\ rule_update.type \notin RuleTypes
    THEN Raised(stored, "InvalidType")
    ELSE UpdateFound(FindRule(stored, rule_id, scope, project_path),
                     remove_permission(stored, rule_id, scope, project_path,
                                       success1),
                     rule_update, scope, project_path, success2)

VALID_PERMISSION_MODES == {ModeDefault, ModeAcceptEdits, ModeDontAsk, ModePlan}

\* PermissionService.update_settings(settings_update, scope, project_path);
\* a field of settings_update that is not provided is None (JSON null)
PermissionService_update_settings(stored, settings_update, scope, project_path, success) ==
    IF /\ Truthy(settings_update.defaultMode)
       /\ settings_update.defaultMode \notin VALID_PERMISSION_MODES
    THEN Raised(stored, "InvalidMode")
    ELSE IF scope # "user" /\ ~Truthy(project_path)
    THEN Raised(stored, "ProjectPathRequired")
    ELSE LET file == IF scope = "user" THEN "user" ELSE "project"
             settings == stored[file]
             permissions == IF HasKey(settings, "permissions")
                            THEN settings.jval["permissions"] ELSE EmptyMap
             withMode == IF settings_update.defaultMode # None
                         THEN Put(permissions, "defaultMode",
                                  JStr(settings_update.defaultMode))
                         ELSE permissions
             withDirs == IF settings_update.additionalDirectories # JNull
                         THEN Put(withMode, "additionalDirectories",
                                  settings_update.additionalDirectories)
                         ELSE withMode
             withFlag == IF settings_update.disableBypassPermissionsMode # JNull
                         THEN Put(withDirs, "disableBypassPermissionsMode",
                                  settings_update.disableBypassPermissionsMode)
                         ELSE withDirs
             written == write_json_file(stored, file,
                            Put(settings, "permissions", withFlag), success)
         IN  IF ~success THEN Raised(stored, "IOError")
             ELSE Returned(written, "ok",
                           list_permissions(written, project_path).settings)

---------------------------------------------------------------------------
(* config_service.py: update_settings *)

\* mutant: an incoming mapping replaces the stored mapping wholesale
_deep_merge_Shallow(base, override) ==
    JMap([key \in DOMAIN base.jval \cup DOMAIN override.jval |->
            IF key \in DOMAIN override.jval
            THEN override.jval[key] ELSE base.jval[key]])

\* mutant: an incoming list is appended to the stored list
RECURSIVE _deep_merge_ListsAppend(_, _)
_deep_merge_ListsAppend(base, override) ==
    JMap([key \in DOMAIN base.jval \cup DOMAIN override.jval |->
            IF key \notin DOMAIN override.jval THEN base.jval[key]
            ELSE IF /\ key \in DOMAIN base.jval
                    /\ IsDict(base.jval[key])
                    /\ IsDict(override.jval[key])
            THEN _deep_merge_ListsAppend(base.jval[key], override.jval[key])
            ELSE IF /\ key \in DOMAIN base.jval
                    /\ IsList(base.jval[key])
                    /\ IsList(override.jval[key])
            THEN JList(base.jval[key].jval \o override.jval[key].jval)
            ELSE override.jval[key]])

\* _deep_merge(base, override)
RECURSIVE _deep_merge(_, _)
_deep_merge(base, override) ==
    JMap([key \in DOMAIN base.jval \cup DOMAIN override.jval |->
            IF key \notin DOMAIN override.jval THEN base.jval[key]
            ELSE IF /\ key \in DOMAIN base.jval
                    /\ IsDict(base.jval[key])
                    /\ IsDict(override.jval[key])
            THEN _deep_merge(base.jval[key], override.jval[key])
            ELSE override.jval[key]])

\* mutant: the managed scope has a file update_settings writes
ScopeFile_ManagedWritable(scope) ==
    IF scope \in {"user", "user_local", "project", "local", "managed"}
    THEN scope ELSE NoneStr

\* the file a scope of update_settings names; None for an invalid scope
ScopeFile(scope) ==
    IF scope \in {"user", "user_local", "project", "local"} THEN scope ELSE NoneStr

\* the write of update_settings and what it returns
WriteSanitized(stored, file, sanitize_result, success) ==
    Returned(write_json_file(stored, file, sanitize_result.sanitized_settings,
                             success),
             "ok",
             IF success
             THEN [success |-> TRUE,
                   migrated_patterns |-> sanitize_result.migrated,
                   removed_patterns |-> sanitize_result.removed]
             ELSE [success |-> FALSE,
                   migrated_patterns |-> <<>>, removed_patterns |-> <<>>])

\* ConfigService.update_settings(scope, settings, project_path); success is
\* whether open() and json.dump() went through
ConfigService_update_settings(stored, scope, settings, project_path, success) ==
    IF ScopeFile(scope) = NoneStr THEN Raised(stored, "InvalidScope")
    ELSE IF scope \in {"project", "local"} /\ ~Truthy(project_path)
    THEN Raised(stored, "ProjectPathRequired")
    ELSE WriteSanitized(stored, ScopeFile(scope),
            sanitize_permission_rules(
                _deep_merge(stored[ScopeFile(scope)], settings)),
            success)

---------------------------------------------------------------------------
(* Specification of the writes: requests served one after the other on the
   stored settings files *)

MaxWrites == 2      \* number of write requests served in a behaviour

Bogus == <<"b", "o", "g", "u", "s">>
Dir == <<"/", "d">>
Dir2 == <<"/", "e">>

\* the documents the user and project files hold at the start: none, a
\* deprecated pattern stored by an earlier version, rules and a mode, settings
\* fields
WriteUserDocs ==
    {EmptyMap,
     JMap([permissions |->
            Permissions(StrList(<<BashLsColonStar>>), Absent, Absent, JStr(ModePlan)),
           model |-> JStr(Model)])}

WriteProjectDocs ==
    {EmptyMap,
     JMap([permissions |->
            Permissions(Absent, Absent, StrList(<<BashLsStar>>), Absent)]),
     JMap([permissions |->
            Put(Put(Permissions(Absent, Absent, Absent, JStr(ModeAcceptEdits)),
                    "additionalDirectories", StrList(<<Dir2>>)),
                "disableBypassPermissionsMode", JBool(FALSE))])}

WritePatterns == {BashLsStar, BashName, BashLsColonStar}
WriteTypes == {"allow", "deny", "bogus"}
PermissionScopes == {"user", "project", "managed"}
ConfigScopes == {"user", "user_local", "project", "local", "managed"}
WritePaths == {None, ProjectPath}

WriteRuleIds ==
    {RuleId("user", "allow", BashLsStar), RuleId("user", "allow", BashLsColonStar),
     RuleId("project", "deny", BashLsStar), RuleId("user", "deny", BashName)}

RuleUpdates ==
    {[pattern |-> None, type |-> NoneStr],
     [pattern |-> None, type |-> "deny"],
     [pattern |-> BashName, type |-> ""],
     [pattern |-> BashLsStar, type |-> "allow"],
     [pattern |-> None, type |-> "bogus"],
     [pattern |-> BashLsColonStar, type |-> NoneStr]}

SettingsUpdates ==
    {[defaultMode |-> mode, additionalDirectories |-> dirs,
      disableBypassPermissionsMode |-> JNull] :
        mode \in {None, <<>>, ModeDontAsk, Bogus},
        dirs \in {JNull, StrList(<<Dir>>)}}
    \cup {[defaultMode |-> None, additionalDirectories |-> JNull,
           disableBypassPermissionsMode |-> JBool(TRUE)]}

\* partial documents of PutScopedSettings; a permissions section is a mapping
Partials ==
    {JMap([permissions |->
            Permissions(StrList(<<BashLsColonStar, BashLsStar>>), Absent, Absent, Absent)]),
     JMap([permissions |->
            Permissions(JList(<<JNum(42), JStr(TaskX)>>), Absent, Absent, Absent)]),
     JMap([permissions |-> Permissions(Absent, Absent, Absent, JStr(ModeDontAsk))]),
     JMap([permissions |-> EmptyMap]),
     JMap([model |-> JNull])}

InitWrite ==
    /\ docs \in {[file \in Files |->
                    IF file = "user" THEN u
                    ELSE IF file = "project" THEN p ELSE EmptyMap] :
                 u \in WriteUserDocs, p \in WriteProjectDocs}
    /\ op = NoWrite
    /\ writes = 0
    /\ GrammarIdle /\ SanitizeIdle /\ ResolveIdle /\ EvalIdle /\ DryRunIdle /\ RaceIdle /\ MatchIdle

\* a request was served: r is what the handler returned
Served(name, request, r) ==
    /\ writes' = writes + 1
    /\ op' = [name |-> name, outcome |-> r.outcome, result |-> r.result,
              request |-> request, before |-> docs]
    /\ docs' = r.docs
    /\ UNCHANGED <<validation, again, proc, observed, matchResult,
                   pattern, classifyResult, migrateResult, sanIn, sanOut,
                   resolveReq, resolved, evalReq, evalResult>>

AddRule(rule, project_path, success) ==
    /\ writes < MaxWrites
    /\ Served("AddRule", [project_path |-> project_path, rule |-> rule],
              add_permission(docs, rule, project_path, success))

UpdateRule(rule_id, rule_update, scope, project_path, success1, success2) ==
    /\ writes < MaxWrites
    /\ Served("UpdateRule",
              [project_path |-> project_path, scope |-> scope, rule_id |-> rule_id,
               rule_update |-> rule_update],
              update_permission(docs, rule_id, rule_update, scope, project_path,
                                success1, success2))

RemoveRule(rule_id, scope, project_path, success) ==
    /\ writes < MaxWrites
    /\ Served("RemoveRule",
              [project_path |-> project_path, scope |-> scope, rule_id |-> rule_id],
              remove_permission(docs, rule_id, scope, project_path, success))

PutPermissionSettings(settings_update, scope, project_path, success) ==
    /\ writes < MaxWrites
    /\ Served("PutPermissionSettings",
              [project_path |-> project_path, scope |-> scope,
               settings_update |-> settings_update],
              PermissionService_update_settings(docs, settings_update, scope,
                                                project_path, success))

PutScopedSettings(scope, settings, project_path, success) ==
    /\ writes < MaxWrites
    /\ Served("PutScopedSettings",
              [settings |-> settings, project_path |-> project_path, scope |-> scope],
              ConfigService_update_settings(docs, scope, settings, project_path,
                                            success))

NextWrite ==
    \/ \E type \in WriteTypes, p \in WritePatterns, scope \in PermissionScopes,
          project_path \in WritePaths, success \in BOOLEAN :
            AddRule([pattern |-> p, scope |-> scope, type |-> type],
                    project_path, success)
    \/ \E rule_id \in WriteRuleIds, rule_update \in RuleUpdates,
          scope \in {"user", "project"}, success1 \in BOOLEAN, success2 \in BOOLEAN :
            UpdateRule(rule_id, rule_update, scope, ProjectPath, success1, success2)
    \/ \E rule_id \in WriteRuleIds, scope \in {"user", "project"},
          project_path \in WritePaths, success \in BOOLEAN :
            RemoveRule(rule_id, scope, project_path, success)
    \/ \E settings_update \in SettingsUpdates, scope \in PermissionScopes,
          project_path \in WritePaths, success \in BOOLEAN :
            PutPermissionSettings(settings_update, scope, project_path, success)
    \/ \E scope \in ConfigScopes, settings \in Partials,
          project_path \in WritePaths, success \in BOOLEAN :
            PutScopedSettings(scope, settings, project_path, success)

SpecWrite == InitWrite /\ [][NextWrite]_vars

---------------------------------------------------------------------------
(* The writes, as the specification states them *)

\* the last request was a write that reported success
Succeeded ==
    /\ op.name # "none"
    /\ op.outcome = "ok"
    /\ (op.name = "PutScopedSettings" => op.result.success)

\* the tier the last request names
NamedTier ==
    IF op.name = "AddRule" THEN op.request.rule.scope ELSE op.request.scope

\* every entry of the document's allow, ask and deny lists classifies as valid
AllEntriesValid(doc) ==
    \A kind \in RuleTypes :
        \A i \in 1..Len(RuleList(doc, kind)) :
            /\ IsStr(RuleList(doc, kind)[i])
            /\ Accepted(RuleList(doc, kind)[i].jval)

\* C11: after a successful write (PutScopedSettings, AddRule, UpdateRule,
\* RemoveRule, PutPermissionSettings) on a tier, every entry of that tier's
\* stored allow, ask and deny lists classifies as valid, whatever the document
\* held before the write
C11_SanitizedAfterEveryWrite ==
    (Succeeded /\ NamedTier \in Files) => AllEntriesValid(docs[NamedTier])

\* the permissions section the specification's merge rule gives: keys of two
\* mappings merge, the incoming value wins otherwise
ExpectedPermissions(before, partial) ==
    IF ~HasKey(partial, "permissions") THEN Get(before, "permissions")
    ELSE IF IsDict(Get(before, "permissions")) /\ IsDict(Get(partial, "permissions"))
    THEN LET old == before.jval["permissions"].jval
             new == partial.jval["permissions"].jval
         IN  JMap([key \in DOMAIN old \cup DOMAIN new |->
                    IF key \in DOMAIN new THEN new[key] ELSE old[key]])
    ELSE partial.jval["permissions"]

\* C12: a successful PutScopedSettings stores the deep merge of the partial
\* onto the tier's document, sanitized after the merge: a key absent from the
\* partial keeps its value, a non-mapping value is replaced by the incoming
\* one, the keys of the permissions mappings merge, a supplied list replaces
\* the stored list, and every list of the merged document, supplied or
\* already stored, is sanitized and reported
C12_PutStoresSanitizedMerge ==
    (op.name = "PutScopedSettings" /\ Succeeded) =>
        LET before == op.before[op.request.scope]
            partial == op.request.settings
            after == docs[op.request.scope]
            expected == ExpectedPermissions(before, partial)
            output == [sanitized_settings |-> after,
                       migrated |-> op.result.migrated_patterns,
                       removed |-> op.result.removed_patterns]
        IN  /\ DOMAIN after.jval = DOMAIN before.jval \cup DOMAIN partial.jval
            /\ \A key \in DOMAIN after.jval \ {"permissions"} :
                  after.jval[key] = IF key \in DOMAIN partial.jval
                                    THEN partial.jval[key] ELSE before.jval[key]
            /\ HasKey(after, "permissions") =>
                  /\ DOMAIN after.jval["permissions"].jval = DOMAIN expected.jval
                  /\ \A key \in DOMAIN expected.jval \ RuleTypes :
                        after.jval["permissions"].jval[key] = expected.jval[key]
                  /\ \A kind \in RuleTypes :
                        CategoryHandled(JMap([permissions |-> expected]), output, kind)
            /\ \A i \in 1..Len(output.migrated) :
                  output.migrated[i].category \in RuleTypes
            /\ \A i \in 1..Len(output.removed) :
                  output.removed[i].category \in RuleTypes

\* a partial that supplies only defaultMode was merged onto a document that
\* stored a deprecated pattern: the mode is replaced, the model is kept, and
\* the stored pattern was migrated and reported
C12_Witness ==
    /\ op.name = "PutScopedSettings" /\ Succeeded
    /\ op.request.scope = "user"
    /\ RuleList(op.before["user"], "allow") = <<JStr(BashLsColonStar)>>
    /\ ~HasKey(op.request.settings.jval["permissions"], "allow")
    /\ RuleList(docs["user"], "allow") = <<JStr(BashLsStar)>>
    /\ docs["user"].jval["permissions"].jval["defaultMode"] = JStr(ModeDontAsk)
    /\ docs["user"].jval["model"] = JStr(Model)
    /\ Len(op.result.migrated_patterns) = 1

\* the last request was an add that passes validation and names a file
AddReachedTheList ==
    /\ op.name = "AddRule"
    /\ op.request.rule.type \in RuleTypes
    /\ Accepted(op.request.rule.pattern)
    /\ op.request.rule.scope \in {"user", "project"}
    /\ (op.request.rule.scope = "project" => Truthy(op.request.project_path))

\* whether the document of the tier stores the pattern under the kind
Stores(stored, tier, kind, p) ==
    \E i \in 1..Len(RuleList(stored[tier], kind)) :
        RuleList(stored[tier], kind)[i] = JStr(p)

\* C13: an add of a pattern that the same (tier, kind) list already holds
\* fails with the conflict error and leaves every document unchanged; when the
\* list does not hold it the add is never a conflict, whether or not another
\* kind of the tier or the same kind of the other tier holds the pattern, and
\* a successful add stores the pattern in that list
C13_DuplicateAddConflicts ==
    AddReachedTheList =>
        LET rule == op.request.rule
        IN  IF Stores(op.before, rule.scope, rule.type, rule.pattern)
            THEN op.outcome = "AlreadyExists" /\ docs = op.before
            ELSE /\ op.outcome \in {"ok", "IOError"}
                 /\ (op.outcome = "ok" =>
                        RuleList(docs[rule.scope], rule.type)
                          = Append(RuleList(op.before[rule.scope], rule.type),
                                   JStr(rule.pattern)))

\* the project tier holds the pattern under deny and, added although deny held
\* it, under allow; adding it to the project's deny list again is a conflict
C13_Witness ==
    /\ AddReachedTheList
    /\ op.request.rule.type = "deny"
    /\ op.request.rule.pattern = BashLsStar
    /\ op.request.rule.scope = "project"
    /\ op.outcome = "AlreadyExists"
    /\ Stores(docs, "project", "deny", BashLsStar)
    /\ Stores(docs, "project", "allow", BashLsStar)

\* C14: an add whose kind is not allow, ask or deny, or whose pattern classify
\* rejects, fails with a validation error and leaves every document unchanged;
\* a deprecated pattern is rejected, not migrated and stored
C14_InvalidAddRejected ==
    (op.name = "AddRule"
        /\ (op.request.rule.type \notin RuleTypes \/ ~Accepted(op.request.rule.pattern)))
    => /\ op.outcome = IF op.request.rule.type \notin RuleTypes
                       THEN "InvalidType" ELSE "InvalidPattern"
       /\ docs = op.before

\* an add of the deprecated Bash(ls:*) to the user's allow list was rejected
\* and neither spelling was stored
C14_Witness ==
    /\ op.name = "AddRule"
    /\ op.request.rule.type = "allow"
    /\ op.request.rule.pattern = BashLsColonStar
    /\ op.request.rule.scope = "user"
    /\ op.outcome = "InvalidPattern"
    /\ docs = op.before
    /\ ~Stores(docs, "user", "allow", BashLsColonStar)
    /\ ~Stores(docs, "user", "allow", BashLsStar)

\* the tiers a write operation supports
SupportedTiers ==
    IF op.name = "PutScopedSettings" THEN {"user", "user_local", "project", "local"}
    ELSE {"user", "project"}

\* C15: a write that names a tier the operation does not support (for AddRule
\* and PutPermissionSettings any tier but user and project) fails and changes
\* no document
C15_UnknownTierRejected ==
    (op.name # "none" /\ NamedTier \notin SupportedTiers) =>
        op.outcome # "ok" /\ docs = op.before

\* the rules a list request with the last request's project context returns
ListedAfter == list_permissions(docs, op.request.project_path).rules

\* C16: after a successful add to the user or project tier, a list with the
\* same project context holds a rule with the id the add returned and with the
\* kind, pattern and tier that were added; listed rules that differ in tier,
\* kind or pattern differ in id
C16_IdentityFromTriple ==
    (op.name = "AddRule" /\ op.outcome = "ok"
        /\ op.request.rule.scope \in {"user", "project"})
    => /\ \E i \in 1..Len(ListedAfter) :
            /\ ListedAfter[i].id = op.result.id
            /\ ListedAfter[i].type = op.request.rule.type
            /\ ListedAfter[i].pattern = op.request.rule.pattern
            /\ ListedAfter[i].scope = op.request.rule.scope
       /\ \A i, j \in 1..Len(ListedAfter) :
            ListedAfter[i].id = ListedAfter[j].id =>
                /\ ListedAfter[i].scope = ListedAfter[j].scope
                /\ ListedAfter[i].type = ListedAfter[j].type
                /\ ListedAfter[i].pattern = ListedAfter[j].pattern

\* a deny rule was added to the project tier while the user tier holds the
\* same pattern under deny: both are listed, under different ids
C16_Witness ==
    /\ op.name = "AddRule" /\ op.outcome = "ok"
    /\ op.request.rule.type = "deny"
    /\ op.request.rule.pattern = BashName
    /\ op.request.rule.scope = "project"
    /\ Stores(docs, "user", "deny", BashName)
    /\ \E i, j \in 1..Len(ListedAfter) :
          /\ ListedAfter[i].id = op.result.id
          /\ ListedAfter[j].pattern = BashName /\ ListedAfter[j].scope = "user"
          /\ ListedAfter[j].type = "deny"
          /\ ListedAfter[i].id # ListedAfter[j].id

\* whether a list of the tier's stored document holds a rule with the id
IdKnown(stored, tier, rule_id) ==
    \E kind \in RuleTypes :
        \E i \in 1..Len(RuleList(stored[tier], kind)) :
            /\ IsStr(RuleList(stored[tier], kind)[i])
            /\ RuleId(tier, kind, RuleList(stored[tier], kind)[i].jval) = rule_id

\* the last request was an update or a remove whose id matches no rule of the
\* tier it names
UnknownIdRequested ==
    /\ op.name \in {"UpdateRule", "RemoveRule"}
    /\ ~IdKnown(op.before, op.request.scope, op.request.rule_id)

\* C17: an update or a remove with an id that matches no rule of the named
\* tier, the id of a rule of the other tier included, fails with NotFound and
\* leaves every document unchanged
C17_UnknownIdNotFound ==
    UnknownIdRequested => op.outcome = "NotFound" /\ docs = op.before

\* what C17 states, for the requests that carry no invalid kind: every remove,
\* and every update whose patch names no kind or one of allow, ask and deny
C17_UnknownIdNotFoundValidKind ==
    (UnknownIdRequested
        /\ (op.name = "UpdateRule" =>
              (~TruthyStr(op.request.rule_update.type)
                 \/ op.request.rule_update.type \in RuleTypes)))
    => op.outcome = "NotFound" /\ docs = op.before

\* the rules a list request with the last request's project context returned
\* before the request
ListedBefore == list_permissions(op.before, op.request.project_path).rules

\* the rules of a listing other than those with the id
OtherRules(rules, rule_id) ==
    LET Other(rule) == rule.id # rule_id
    IN  SelectSeq(rules, Other)

\* C18: after a successful remove a list holds no rule with the removed id,
\* and the other rules of the tier and the rules of the other tier are listed
\* as before, also when a list of the stored document holds the pattern twice
C18_RemovedIdNoLongerListed ==
    (op.name = "RemoveRule" /\ op.outcome = "ok") =>
        /\ \A i \in 1..Len(ListedAfter) : ListedAfter[i].id # op.request.rule_id
        /\ OtherRules(ListedAfter, op.request.rule_id)
             = OtherRules(ListedBefore, op.request.rule_id)

\* what C18 states about the rules that were not removed
C18_OtherRulesKept ==
    (op.name = "RemoveRule" /\ op.outcome = "ok") =>
        OtherRules(ListedAfter, op.request.rule_id)
          = OtherRules(ListedBefore, op.request.rule_id)

\* the last request was an update that reported success
UpdateSucceeded == op.name = "UpdateRule" /\ op.outcome = "ok"

\* the rule the update named, as it was listed before the update
OldRule ==
    ListedBefore[CHOOSE i \in 1..Len(ListedBefore) :
                    /\ ListedBefore[i].id = op.request.rule_id
                    /\ ListedBefore[i].scope = op.request.scope]

\* the kind and the pattern of the patch where it supplies them (a value other
\* than None), those of the old rule otherwise
PatchedKind ==
    IF op.request.rule_update.type # NoneStr
    THEN op.request.rule_update.type ELSE OldRule.type

PatchedPattern ==
    IF op.request.rule_update.pattern # None
    THEN op.request.rule_update.pattern ELSE OldRule.pattern

\* the update returned, and a following list holds, the rule of the tier with
\* the kind and the pattern given and the id derived from them
ReplacedBy(kind, p) ==
    /\ op.result.scope = op.request.scope
    /\ op.result.type = kind
    /\ op.result.pattern = p
    /\ op.result.id = RuleId(op.request.scope, kind, p)
    /\ \E i \in 1..Len(ListedAfter) :
          /\ ListedAfter[i].id = op.result.id
          /\ ListedAfter[i].scope = op.request.scope
          /\ ListedAfter[i].type = kind
          /\ ListedAfter[i].pattern = p

\* the documents of the tiers the update did not name are as before
OtherTiersUnchanged ==
    \A tier \in Files \ {op.request.scope} : docs[tier] = op.before[tier]

\* C19: a successful update of a rule of tier T replaces it, within T, by the
\* rule with the patch's kind and pattern where supplied and the old ones
\* otherwise, under the id derived from (T, new kind, new pattern); the other
\* tiers' documents are unchanged, and when kind or pattern changed the old id
\* is no longer listed
C19_UpdateReplacesWithinTier ==
    UpdateSucceeded =>
        /\ ReplacedBy(PatchedKind, PatchedPattern)
        /\ OtherTiersUnchanged
        /\ (PatchedKind # OldRule.type \/ PatchedPattern # OldRule.pattern)
              => \A i \in 1..Len(ListedAfter) :
                    ListedAfter[i].id # op.request.rule_id

\* the kind and the pattern of the patch where it supplies a non-empty value,
\* those of the old rule otherwise
NonEmptyKind ==
    IF op.request.rule_update.type \notin {NoneStr, ""}
    THEN op.request.rule_update.type ELSE OldRule.type

NonEmptyPattern ==
    IF op.request.rule_update.pattern \notin {None, <<>>}
    THEN op.request.rule_update.pattern ELSE OldRule.pattern

\* the part of C19 about the new rule and the other tiers, an empty kind or
\* pattern of the patch read as not supplied
C19_NewRuleWithinTier ==
    UpdateSucceeded => ReplacedBy(NonEmptyKind, NonEmptyPattern) /\ OtherTiersUnchanged

\* the part of C19 about the old id, an empty kind or pattern of the patch
\* read as not supplied
C19_OldIdGone ==
    (UpdateSucceeded
        /\ (NonEmptyKind # OldRule.type \/ NonEmptyPattern # OldRule.pattern))
    => \A i \in 1..Len(ListedAfter) : ListedAfter[i].id # op.request.rule_id

\* the modes the specification enumerates
EnumeratedModes ==
    {<<"d","e","f","a","u","l","t">>,
     <<"a","c","c","e","p","t","E","d","i","t","s">>,
     <<"d","o","n","t","A","s","k">>,
     <<"p","l","a","n">>}

\* the document stores no defaultMode, or one of the enumeration
ModeInEnumeration(doc) ==
    (HasKey(doc, "permissions") /\ HasKey(doc.jval["permissions"], "defaultMode"))
    => /\ IsStr(doc.jval["permissions"].jval["defaultMode"])
       /\ doc.jval["permissions"].jval["defaultMode"].jval \in EnumeratedModes

\* C20: an updateSettings whose patch provides a defaultMode outside default,
\* acceptEdits, dontAsk and plan, the empty string included, fails with the
\* validation error and stores nothing; so a document whose defaultMode was in
\* the enumeration does not leave it by an updateSettings
C20_InvalidModeRejected ==
    (op.name = "PutPermissionSettings") =>
        /\ (op.request.settings_update.defaultMode # None
              /\ op.request.settings_update.defaultMode \notin EnumeratedModes)
           => (op.outcome = "InvalidMode" /\ docs = op.before)
        /\ \A file \in Files :
              ModeInEnumeration(op.before[file]) => ModeInEnumeration(docs[file])

\* what C20 states, for the patches whose defaultMode is not the empty string
C20_NonEmptyInvalidModeRejected ==
    (op.name = "PutPermissionSettings"
        /\ op.request.settings_update.defaultMode \notin {None, <<>>})
    => /\ (op.request.settings_update.defaultMode \notin EnumeratedModes
              => (op.outcome = "InvalidMode" /\ docs = op.before))
       /\ \A file \in Files :
              ModeInEnumeration(op.before[file]) => ModeInEnumeration(docs[file])

\* the permissions section of a document, empty when the document has none
Section(doc) ==
    IF HasKey(doc, "permissions") THEN doc.jval["permissions"] ELSE EmptyMap

\* the fields of the permissions section the last updateSettings supplied
SuppliedFields ==
    {field \in {"defaultMode"} : op.request.settings_update.defaultMode # None}
    \cup {field \in {"additionalDirectories"} :
            op.request.settings_update.additionalDirectories # JNull}
    \cup {field \in {"disableBypassPermissionsMode"} :
            op.request.settings_update.disableBypassPermissionsMode # JNull}

\* the document after the last updateSettings differs from the one before
\* only in the supplied fields of its permissions section
OnlySuppliedFieldsChanged(before, after) ==
    /\ DOMAIN after.jval \ {"permissions"} = DOMAIN before.jval \ {"permissions"}
    /\ \A key \in DOMAIN before.jval \ {"permissions"} :
          after.jval[key] = before.jval[key]
    /\ DOMAIN Section(after).jval \ SuppliedFields
          = DOMAIN Section(before).jval \ SuppliedFields
    /\ \A key \in DOMAIN Section(before).jval \ SuppliedFields :
          Section(after).jval[key] = Section(before).jval[key]

\* C21: a successful updateSettings changes, in the named tier's document, only
\* the supplied fields among defaultMode, additionalDirectories and
\* disableBypassPermissionsMode: the allow, ask and deny lists, the fields not
\* supplied and the keys outside the permissions section are as before, and so
\* are the documents of the other tiers
C21_UpdateSettingsFrame ==
    (op.name = "PutPermissionSettings" /\ op.outcome = "ok") =>
        /\ OnlySuppliedFieldsChanged(op.before[op.request.scope],
                                     docs[op.request.scope])
        /\ \A tier \in Files \ {op.request.scope} : docs[tier] = op.before[tier]

\* what C21 states, for the user and the project tier
C21_UpdateSettingsFrameUserProject ==
    (op.name = "PutPermissionSettings" /\ op.outcome = "ok"
        /\ op.request.scope \in {"user", "project"}) =>
        /\ OnlySuppliedFieldsChanged(op.before[op.request.scope],
                                     docs[op.request.scope])
        /\ \A tier \in Files \ {op.request.scope} : docs[tier] = op.before[tier]

\* the tiers a list request with the project context reads, the project
\* tier first
ListedTiers(project_path) ==
    IF Truthy(project_path) THEN <<"project", "user">> ELSE <<"user">>

\* whether the tier's document defines the field of the permissions section
TierDefines(tier, field) == HasKey(Section(docs[tier]), field)

\* the value of the first of the tiers that defines the field, the default
\* when none does
HighestPresent(tiers, field, default) ==
    LET defining == {i \in 1..Len(tiers) : TierDefines(tiers[i], field)}
    IN  IF defining = {} THEN default
        ELSE Section(docs[tiers[Min(defining)]]).jval[field]

\* the directories of a listing or of a stored field, as a set
DirectorySet(j) ==
    IF j.jtype = "list" THEN Elements(j.jval)
    ELSE IF j.jtype = "setlist" THEN j.jval ELSE {}

\* the directories the tiers store, together
StoredDirectories(tiers) ==
    UNION {DirectorySet(Section(docs[tiers[i]]).jval["additionalDirectories"]) :
             i \in {x \in 1..Len(tiers) : TierDefines(tiers[x], "additionalDirectories")}}

\* C22: the settings list returns take defaultMode and
\* disableBypassPermissionsMode from the project tier when its document
\* defines the field, else from the user tier, else the defaults "default" and
\* false; additionalDirectories is, as a set, the union of the directories of
\* the user and the project tier
C22_ListedSettingsMerge ==
    \A project_path \in WritePaths :
        LET settings == list_permissions(docs, project_path).settings
            tiers == ListedTiers(project_path)
        IN  /\ settings.defaultMode
                 = HighestPresent(tiers, "defaultMode", JStr(<<"d","e","f","a","u","l","t">>))
            /\ settings.disableBypassPermissionsMode
                 = HighestPresent(tiers, "disableBypassPermissionsMode", JBool(FALSE))
            /\ DirectorySet(settings.additionalDirectories) = StoredDirectories(tiers)

\* an updateSettings returned the listed settings while both tiers store a
\* mode, the project tier stores false for the flag and the user tier true,
\* and each tier stores a directory of its own: the project's mode and flag
\* and both directories are returned
C22_Witness ==
    /\ op.name = "PutPermissionSettings" /\ op.outcome = "ok"
    /\ Truthy(op.request.project_path)
    /\ TierDefines("user", "defaultMode")
    /\ Section(docs["user"]).jval["defaultMode"] = JStr(ModePlan)
    /\ TierDefines("user", "disableBypassPermissionsMode")
    /\ Section(docs["user"]).jval["disableBypassPermissionsMode"] = JBool(TRUE)
    /\ TierDefines("user", "additionalDirectories")
    /\ TierDefines("project", "additionalDirectories")
    /\ op.result.defaultMode = JStr(ModeAcceptEdits)
    /\ op.result.disableBypassPermissionsMode = JBool(FALSE)
    /\ DirectorySet(op.result.additionalDirectories) = {JStr(Dir), JStr(Dir2)}
    /\ op.result = list_permissions(docs, op.request.project_path).settings

\* C23: the managed tier is read-only: no step of PutScopedSettings, AddRule,
\* UpdateRule, RemoveRule or PutPermissionSettings, whatever tier it names,
\* changes the managed tier's document
C23_ManagedNeverWritten ==
    [][docs'["managed"] = docs["managed"]]_vars

\* an add that named the managed tier reported success: the rule went to the
\* project tier's document and the managed document is as it was
C23_Witness ==
    /\ op.name = "AddRule"
    /\ op.request.rule.scope = "managed"
    /\ op.outcome = "ok"
    /\ docs["managed"] = op.before["managed"]
    /\ docs["project"] # op.before["project"]

\* the last request was an update that found its rule and then failed with a
\* validation error, a conflict or a failed write
UpdateFailedAfterLookup ==
    /\ op.name = "UpdateRule"
    /\ IdKnown(op.before, op.request.scope, op.request.rule_id)
    /\ op.outcome \in {"InvalidPattern", "AlreadyExists", "IOError"}

\* C27: an update that fails after its lookup succeeded (the merged pattern
\* fails the grammar, the merged rule already exists, or a write fails)
\* commits nothing: the tier's document still holds the original rule and a
\* following list still reports its id
C27_FailedUpdateCommitsNothing ==
    UpdateFailedAfterLookup =>
        /\ docs[op.request.scope] = op.before[op.request.scope]
        /\ \E i \in 1..Len(ListedAfter) :
              /\ ListedAfter[i].id = op.request.rule_id
              /\ ListedAfter[i].scope = op.request.scope

\* the original rule is no longer listed after the failed update
C27_RuleLost ==
    /\ UpdateFailedAfterLookup
    /\ \A i \in 1..Len(ListedAfter) : ListedAfter[i].id # op.request.rule_id

---------------------------------------------------------------------------
(* api/v1/config.py: validate_settings *)

\* mutant: an issue never carries a suggestion
ValidateEntry_NoSuggestion(entry, category) ==
    IF ~IsStr(entry)
    THEN <<[pattern |-> PyStr(entry), category |-> category,
            error |-> ReasonNotString, suggestion |-> None]>>
    ELSE IF ~validate_permission_pattern(entry.jval).valid
    THEN <<[pattern |-> entry.jval, category |-> category,
            error |-> validate_permission_pattern(entry.jval).error,
            suggestion |-> None]>>
    ELSE <<>>

\* one iteration of the loop over a category's rules: the issue the entry
\* adds, if any
ValidateEntry(entry, category) ==
    IF ~IsStr(entry)
    THEN <<[pattern |-> PyStr(entry), category |-> category,
            error |-> ReasonNotString, suggestion |-> None]>>
    ELSE IF ~validate_permission_pattern(entry.jval).valid
    THEN <<[pattern |-> entry.jval, category |-> category,
            error |-> validate_permission_pattern(entry.jval).error,
            suggestion |-> migrate_deprecated_pattern(entry.jval)]>>
    ELSE <<>>

\* the loop over the rules of one category, in order
RECURSIVE ValidateRules(_, _)
ValidateRules(rules, category) ==
    IF Len(rules) = 0 THEN <<>>
    ELSE ValidateEntry(Head(rules), category) \o ValidateRules(Tail(rules), category)

\* the loop over the categories from index c on
RECURSIVE ValidateCategories(_, _)
ValidateCategories(permissions, c) ==
    IF c > Len(Categories) THEN <<>>
    ELSE (IF IsList(Get(permissions, Categories[c]))
          THEN ValidateRules(Get(permissions, Categories[c]).jval, Categories[c])
          ELSE <<>>)
         \o ValidateCategories(permissions, c + 1)

\* the issues found in request.settings.get("permissions", {})
IssuesOf(permissions) ==
    IF ~IsDict(permissions) THEN <<>> ELSE ValidateCategories(permissions, 1)

\* validate_settings(request): no file is read or written
validate_settings(settings) ==
    [valid |-> Len(IssuesOf(IF HasKey(settings, "permissions")
                            THEN settings.jval["permissions"] ELSE EmptyMap)) = 0,
     issues |-> IssuesOf(IF HasKey(settings, "permissions")
                         THEN settings.jval["permissions"] ELSE EmptyMap)]

---------------------------------------------------------------------------
(* Specification of the dry run: a candidate document is validated, sanitized,
   and the sanitized document is sanitized again *)

DryRunDocs ==
    {[file \in Files |-> IF file = "user" THEN u ELSE EmptyMap] : u \in WriteUserDocs}

InitDryRun ==
    /\ sanIn \in SanitizeInputs
    /\ sanOut = NotRun
    /\ validation = NotRun
    /\ again = NotRun
    /\ docs \in DryRunDocs
    /\ GrammarIdle /\ ResolveIdle /\ EvalIdle /\ WriteIdle /\ RaceIdle /\ MatchIdle

ValidateSettings ==
    /\ ~validation.done
    /\ validation' = Done(validate_settings(sanIn))
    /\ UNCHANGED <<again, proc, observed, matchResult, op, writes, docs, pattern, classifyResult,
                   migrateResult, sanIn, sanOut, resolveReq, resolved, evalReq,
                   evalResult>>

SanitizeAgain ==
    /\ sanOut.done
    /\ ~again.done
    /\ again' = Done(sanitize_permission_rules(sanOut.value.sanitized_settings))
    /\ UNCHANGED <<validation, proc, observed, matchResult, op, writes, docs, pattern,
                   classifyResult, migrateResult, sanIn, sanOut, resolveReq,
                   resolved, evalReq, evalResult>>

NextDryRun == Sanitize \/ ValidateSettings \/ SanitizeAgain

SpecDryRun == InitDryRun /\ [][NextDryRun]_vars

---------------------------------------------------------------------------
(* The dry run, as the specification states it *)

\* the entries of the candidate's list that sanitize migrates or removes
Corrected(category) ==
    Positions(RuleList(sanIn, category), {"migrated", "not a string", "invalid"})

\* the issues of the validation for one category
IssuesFor(category) == OfCategory(validation.value.issues, category)

\* C25: ValidateSettings is a dry run of sanitization: it changes no tier
\* document; it returns valid exactly when sanitize of the same candidate
\* reports no migrated and no removed entry; it reports one issue per entry
\* sanitize migrates or removes, in order; and an issue carries a suggestion
\* exactly when sanitize migrates the entry, the suggestion being the migrated
\* form
C25_ValidateIsDryRunOfSanitize ==
    /\ [](validation.done =>
            LET s == sanitize_permission_rules(sanIn)
            IN  /\ validation.value.valid
                      <=> (Len(s.migrated) = 0 /\ Len(s.removed) = 0)
                /\ Len(validation.value.issues) = Len(s.migrated) + Len(s.removed)
                /\ \A category \in RuleTypes :
                      /\ Len(IssuesFor(category)) = Cardinality(Corrected(category))
                      /\ \A j \in 1..Len(IssuesFor(category)) :
                            LET e == RuleList(sanIn, category)[Nth(Corrected(category), j)]
                                issue == IssuesFor(category)[j]
                            IN  /\ issue.pattern = PyStr(e)
                                /\ issue.suggestion # None
                                      <=> Disposition(e) = "migrated"
                                /\ Disposition(e) = "migrated" =>
                                      \E i \in 1..Len(s.migrated) :
                                         /\ s.migrated[i].original = e.jval
                                         /\ s.migrated[i].category = category
                                         /\ s.migrated[i].migrated = issue.suggestion)
    /\ [][validation' # validation => docs' = docs]_vars

\* the specification's example list was validated and sanitized: two issues,
\* the one for "Bash(ls:*)" suggests "Bash(ls *)", the one for 42 suggests
\* nothing, and the stored documents are as they were
C25_Witness ==
    /\ validation.done /\ sanOut.done
    /\ RuleList(sanIn, "allow") = ExampleAllow
    /\ ~validation.value.valid
    /\ Len(IssuesFor("allow")) = 2
    /\ IssuesFor("allow")[1].pattern = BashLsColonStar
    /\ IssuesFor("allow")[1].suggestion = BashLsStar
    /\ IssuesFor("allow")[2].pattern = <<"4", "2">>
    /\ IssuesFor("allow")[2].suggestion = None
    /\ Len(OfCategory(sanOut.value.migrated, "allow")) = 1
    /\ Len(OfCategory(sanOut.value.removed, "allow")) = 1
    /\ docs \in DryRunDocs

---------------------------------------------------------------------------
(* Repeated requests, as the specification states them *)

\* the step serves again, with success, the PutScopedSettings request that
\* was served with success just before
RepeatsPut ==
    /\ op.name = "PutScopedSettings" /\ Succeeded
    /\ op'.name = "PutScopedSettings" /\ Succeeded'
    /\ op'.request = op.request

\* sanitize applied to the document a successful PutScopedSettings stored
\* returns that document and reports nothing
StoredIsFixedPoint ==
    (op.name = "PutScopedSettings" /\ Succeeded) =>
        LET s == sanitize_permission_rules(docs[op.request.scope])
        IN  /\ s.sanitized_settings = docs[op.request.scope]
            /\ s.migrated = <<>>
            /\ s.removed = <<>>

\* C30 as stated: sanitization is idempotent; so repeating a PutScopedSettings
\* request leaves the stored document as the first request left it and
\* reports no migrated and no removed pattern the second time
C30_RepeatedPutReportsNothing ==
    /\ []StoredIsFixedPoint
    /\ [][RepeatsPut =>
            /\ docs' = docs
            /\ op'.result.migrated_patterns = <<>>
            /\ op'.result.removed_patterns = <<>>]_vars

\* the reports about the lists the request itself supplies
OfSuppliedLists(records, partial) ==
    LET Supplied(r) == /\ IsDict(Get(partial, "permissions"))
                       /\ IsList(Get(Get(partial, "permissions"), r.category))
    IN  SelectSeq(records, Supplied)

\* C30, amended: sanitization is idempotent; repeating a PutScopedSettings
\* request leaves the stored document as the first request left it, and the
\* second response reports again the corrections of the lists the request
\* supplies and none for the lists that were already stored
C30_RepeatedPutKeepsDocument ==
    /\ []StoredIsFixedPoint
    /\ [][RepeatsPut =>
            /\ docs' = docs
            /\ op'.result.migrated_patterns
                  = OfSuppliedLists(op.result.migrated_patterns, op.request.settings)
            /\ op'.result.removed_patterns
                  = OfSuppliedLists(op.result.removed_patterns, op.request.settings)]_vars

\* a request supplying allow = ["Bash(ls:*)", "Bash(ls *)"] was served on the
\* document an earlier request with that list had left: the document is as it
\* was and the migration of "Bash(ls:*)" is reported again
C30_Witness ==
    /\ op.name = "PutScopedSettings" /\ Succeeded
    /\ writes = 2
    /\ op.request.scope = "user"
    /\ RuleList(op.request.settings, "allow")
          = <<JStr(BashLsColonStar), JStr(BashLsStar)>>
    /\ RuleList(op.before["user"], "allow") = <<JStr(BashLsStar), JStr(BashLsStar)>>
    /\ docs = op.before
    /\ Len(op.result.migrated_patterns) = 1
    /\ op.result.migrated_patterns[1].original = BashLsColonStar

\* the sanitized document was sanitized again
C30_SanitizeIdempotent ==
    again.done =>
        /\ again.value.sanitized_settings = sanOut.value.sanitized_settings
        /\ again.value.migrated = <<>>
        /\ again.value.removed = <<>>

---------------------------------------------------------------------------
(* Specification of matching: one rule pattern is matched against one
   invocation *)

MaxMatchArgLen == 2     \* length of the invocation's argument

Rule(tool, arg) == tool \o <<"(">> \o arg \o <<")">>

\* the arguments of the rules: the wildcard, literals, globs, a class, an
\* unclosed bracket, an upper-case letter
MatchRuleArgs ==
    {Star, <<"a">>, <<"a", "*">>, <<"?">>, <<"?", "b">>, <<"[", "a", "b", "]">>,
     <<"[", "a">>, <<"A">>, <<"*", "b">>}

MatchPatterns ==
    {Rule(tool, arg) : tool \in {<<"B">>, Star}, arg \in MatchRuleArgs}
    \cup {<<"B">>, <<"B", ":", "a">>, Star}

MatchTools == {<<"B">>, <<"R">>}

MatchArguments ==
    {None} \cup Strings({"a", "b", "A", "[", "]"}, MaxMatchArgLen)

InitMatch ==
    /\ pattern \in MatchPatterns
    /\ evalReq \in {[tool |-> tool, argument |-> argument, project_path |-> None] :
                      tool \in MatchTools, argument \in MatchArguments}
    /\ matchResult = NotRun
    /\ classifyResult = NotRun /\ migrateResult = NotRun
    /\ evalResult = NotRun
    /\ docs = NoDocs
    /\ SanitizeIdle /\ ResolveIdle /\ WriteIdle /\ DryRunIdle /\ RaceIdle

Match ==
    /\ ~matchResult.done
    /\ matchResult' = Done(_matches_pattern(pattern, evalReq.tool, evalReq.argument))
    /\ UNCHANGED <<validation, again, proc, observed, op, writes, docs, pattern,
                   classifyResult, migrateResult, sanIn, sanOut, resolveReq,
                   resolved, evalReq, evalResult>>

NextMatch == Match

SpecMatch == InitMatch /\ [][NextMatch]_vars

---------------------------------------------------------------------------
(* Matching, as the specification states it *)

\* a rule of shape Tool(arg): its tool, a tool name or the wildcard, is what
\* stands before the first "(", its arg what stands between it and the ")"
\* that ends the rule
OpenAt(rule) == Min({i \in 1..Len(rule) : rule[i] = "("})

RuleTool(rule) == Slice(rule, 1, OpenAt(rule) - 1)

RuleArg(rule) == Slice(rule, OpenAt(rule) + 1, Len(rule) - 1)

IsToolName(s) == Len(s) > 0 /\ IdentPrefixLen(s) = Len(s)

HasToolArgShape(rule) ==
    /\ Contains(rule, "(")
    /\ rule[Len(rule)] = ")"
    /\ Len(RuleArg(rule)) > 0
    /\ (IsToolName(RuleTool(rule)) \/ RuleTool(rule) = Star)

\* glob match of name[i..] against pat[j..] where only "*" and "?" are
\* special
RECURSIVE StarQuestionGlob(_, _, _, _)
StarQuestionGlob(name, i, pat, j) ==
    IF j > Len(pat) THEN i > Len(name)
    ELSE IF pat[j] = "*"
         THEN \E x \in i..(Len(name) + 1) : StarQuestionGlob(name, x, pat, j + 1)
    ELSE IF pat[j] = "?"
         THEN i <= Len(name) /\ StarQuestionGlob(name, i + 1, pat, j + 1)
    ELSE i <= Len(name) /\ name[i] = pat[j]
            /\ StarQuestionGlob(name, i + 1, pat, j + 1)

\* what the specification says about a rule of shape Tool(arg)
SpecifiedMatch(rule, tool, argument) ==
    /\ RuleTool(rule) \in {tool, Star}
    /\ IF argument = None THEN RuleArg(rule) = Star
       ELSE StarQuestionGlob(argument, 1, RuleArg(rule), 1)

\* C26: a rule of shape Tool(arg) matches an invocation exactly when its tool
\* is the invocation's tool or the wildcard and, the argument absent, its arg
\* is "*", or, the argument present, the argument glob-matches the arg with
\* only "*" and "?" special and every other character, "[" and "]" included,
\* standing for itself, case-sensitively
C26_ToolArgMatchesByGlob ==
    (matchResult.done /\ HasToolArgShape(pattern)) =>
        (matchResult.value
            <=> SpecifiedMatch(pattern, evalReq.tool, evalReq.argument))

\* what C26 states, for the rules with a tool name and no "[" in the arg
C26_ToolArgMatchesWithoutBracket ==
    (matchResult.done /\ HasToolArgShape(pattern)
        /\ RuleTool(pattern) # Star /\ ~Contains(RuleArg(pattern), "["))
    => (matchResult.value
            <=> SpecifiedMatch(pattern, evalReq.tool, evalReq.argument))

---------------------------------------------------------------------------
(* Specification of evaluation with the managed and local tiers in use: one
   invocation is evaluated against the stored documents of the four tiers *)

\* documents of the user and the project tier
IsolationDocs ==
    {EmptyMap,
     JMap([permissions |->
            Permissions(StrList(<<BashStar>>), Absent, Absent, JStr(ModeDontAsk))]),
     JMap([permissions |->
            Permissions(Absent, StrList(<<BashColonRm>>), StrList(<<ReadStar>>), Absent)])}

\* documents of the managed and the local tier: a deny rule, an ask rule and
\* a mode that no other tier stores
OutsideDocs ==
    {EmptyMap,
     JMap([permissions |->
            Permissions(Absent, StrList(<<ReadStar>>), StrList(<<BashStar>>),
                        JStr(ModeDontAsk))])}

InitIsolation ==
    /\ docs \in {[managed |-> m, local |-> l, project |-> p, user |-> u] :
                    m \in OutsideDocs, l \in OutsideDocs,
                    p \in IsolationDocs, u \in IsolationDocs}
    /\ evalReq = Unset
    /\ evalResult = NotRun
    /\ GrammarIdle /\ SanitizeIdle /\ ResolveIdle /\ WriteIdle /\ DryRunIdle
    /\ RaceIdle /\ MatchIdle

SpecIsolation == InitIsolation /\ [][NextEvaluate]_vars

\* the stored documents with the managed and the local tier emptied
WithoutOutside(stored) ==
    [tier \in DOMAIN stored |->
        IF tier \in {"managed", "local"} THEN EmptyMap ELSE stored[tier]]

\* C29: the decision of evaluate depends only on the user and the project
\* tier's documents: it is the decision evaluate returns for the same
\* invocation when the managed and the local tier are empty, so two states
\* that agree on the user and project documents get the same decision; a deny
\* rule stored only in the managed or local tier changes no decision
C29_DecisionIgnoresManagedAndLocal ==
    evalResult.done =>
        evalResult.value
          = evaluate_permission(WithoutOutside(docs), evalReq.tool,
                                evalReq.argument, evalReq.project_path)

\* the managed and the local tier deny B(*) while the user tier allows it: the
\* invocation of B with an argument was evaluated to allow
C29_Witness ==
    /\ evalResult.done
    /\ RuleList(docs["managed"], "deny") = <<JStr(BashStar)>>
    /\ RuleList(docs["local"], "deny") = <<JStr(BashStar)>>
    /\ RuleList(docs["user"], "allow") = <<JStr(BashStar)>>
    /\ docs["project"] = EmptyMap
    /\ evalReq.tool = <<"B">>
    /\ evalReq.argument = <<"l", "s">>
    /\ evalResult.value = "allow"

---------------------------------------------------------------------------
(* Specification of concurrent requests: two request handlers and an
   evaluation run on the user tier's document.  A handler reads the document
   and prepares the document it will write in one step, and the write it
   awaits is a step of its own; update_permission awaits a remove and then an
   add, each with its own read and write. *)

Procs == {1, 2}

NoRule == [pattern |-> <<>>, scope |-> "none", type |-> "none"]

\* what a handler holds in memory: the call it serves, the document it is
\* about to write, the rule its update will add, how many writes had been
\* done when it last read, and the number of its last write
IdleProc ==
    [outcome |-> "none", rule |-> NoRule, pc |-> "idle", call |-> "none",
     pending |-> EmptyMap, seen |-> 0, savedAt |-> 0]

RaceUserDocs ==
    {EmptyMap,
     JMap([permissions |-> Permissions(Absent, Absent, StrList(<<BashRmStar>>), Absent)])}

RaceAdds ==
    {[pattern |-> p, scope |-> "user", type |-> "allow"] : p \in {BashStar, ReadStar}}

DenyRmId == RuleId("user", "deny", BashRmStar)

\* the update that widens the deny rule B(rm *) to B(*)
RaceUpdates == {[pattern |-> BashStar, type |-> NoneStr]}

\* the invocation both B(rm *) and B(*) match
RaceTool == <<"B">>
RaceArgument == <<"r", "m", " ", "x">>

InitRace ==
    /\ docs \in {[file \in Files |-> IF file = "user" THEN u ELSE EmptyMap] :
                    u \in RaceUserDocs}
    /\ proc = [p \in Procs |-> IdleProc]
    /\ observed = {}
    /\ op = NoWrite
    /\ writes = 0
    /\ GrammarIdle /\ SanitizeIdle /\ ResolveIdle /\ EvalIdle /\ DryRunIdle /\ MatchIdle

RaceFrame ==
    UNCHANGED <<validation, again, matchResult, op, pattern, classifyResult,
                migrateResult, sanIn, sanOut, resolveReq, resolved, evalReq,
                evalResult>>

\* the handler stops with an error, or goes on to write the document r holds
AfterRead(p, call, r, rule, pc) ==
    /\ proc' = [proc EXCEPT ![p] =
                  IF r.outcome # "ok"
                  THEN [@ EXCEPT !.pc = "done", !.call = call, !.outcome = r.outcome]
                  ELSE [@ EXCEPT !.pc = pc, !.call = call, !.pending = r.docs["user"],
                                 !.rule = rule, !.seen = writes]]
    /\ UNCHANGED <<docs, writes, observed>>
    /\ RaceFrame

\* add_permission up to its write
AddRead(p, rule) ==
    /\ proc[p].pc = "idle"
    /\ AfterRead(p, "add", add_permission(docs, rule, None, TRUE), rule, "saving")

\* remove_permission up to its write
RemoveRead(p, rule_id) ==
    /\ proc[p].pc = "idle"
    /\ AfterRead(p, "remove", remove_permission(docs, rule_id, "user", None, TRUE),
                 NoRule, "saving")

\* update_permission up to the write of its remove_permission
UpdateRead(p, rule_id, rule_update) ==
    /\ proc[p].pc = "idle"
    /\ IF TruthyStr(rule_update.type) /\ rule_update.type \notin RuleTypes
       THEN AfterRead(p, "update", Raised(docs, "InvalidType"), NoRule, "done")
       ELSE IF FindRule(docs, rule_id, "user", None) = {}
       THEN AfterRead(p, "update", Raised(docs, "NotFound"), NoRule, "done")
       ELSE AfterRead(p, "update",
                      remove_permission(docs, rule_id, "user", None, TRUE),
                      MergedRule(CHOOSE rule \in FindRule(docs, rule_id, "user", None) : TRUE,
                                 rule_update, "user"),
                      "removing")

\* the awaited write of remove_permission inside update_permission
SaveRemoved(p) ==
    /\ proc[p].pc = "removing"
    /\ docs' = write_json_file(docs, "user", proc[p].pending, TRUE)
    /\ writes' = writes + 1
    /\ proc' = [proc EXCEPT ![p].pc = "between", ![p].savedAt = writes + 1]
    /\ UNCHANGED observed
    /\ RaceFrame

\* add_permission inside update_permission, up to its write
UpdateAdd(p) ==
    /\ proc[p].pc = "between"
    /\ AfterRead(p, "update", add_permission(docs, proc[p].rule, None, TRUE),
                 proc[p].rule, "saving")

\* the awaited write that ends add_permission and remove_permission
Save(p) ==
    /\ proc[p].pc = "saving"
    /\ docs' = write_json_file(docs, "user", proc[p].pending, TRUE)
    /\ writes' = writes + 1
    /\ proc' = [proc EXCEPT ![p].pc = "done", ![p].outcome = "ok",
                            ![p].savedAt = writes + 1]
    /\ UNCHANGED observed
    /\ RaceFrame

\* evaluate_permission for the invocation, once, whatever the handlers are at
Observe ==
    /\ observed = {}
    /\ observed' = {[decision |-> evaluate_permission(docs, RaceTool, RaceArgument, None),
                     pcs |-> [p \in Procs |-> proc[p].pc],
                     calls |-> [p \in Procs |-> proc[p].call]]}
    /\ UNCHANGED <<docs, writes, proc>>
    /\ RaceFrame

NextRace ==
    \/ \E p \in Procs, rule \in RaceAdds : AddRead(p, rule)
    \/ \E p \in Procs : RemoveRead(p, DenyRmId)
    \/ \E p \in Procs, rule_update \in RaceUpdates : UpdateRead(p, DenyRmId, rule_update)
    \/ \E p \in Procs : SaveRemoved(p)
    \/ \E p \in Procs : UpdateAdd(p)
    \/ \E p \in Procs : Save(p)
    \/ Observe

SpecRace == InitRace /\ [][NextRace]_vars

(* Claims about concurrent requests *)

DoneAdd(p) ==
    /\ proc[p].pc = "done"
    /\ proc[p].call = "add"
    /\ proc[p].outcome = "ok"

\* both handlers added a rule of their own and reported success; p wrote
\* first and q wrote last
BothAdded(p, q) ==
    /\ p # q
    /\ DoneAdd(p) /\ DoneAdd(q)
    /\ proc[p].rule.pattern # proc[q].rule.pattern
    /\ proc[p].savedAt < proc[q].savedAt

\* q read the document before p's write reached the file
ReadBeforeWrite(p, q) == proc[q].seen < proc[p].savedAt

AllowHolds(p) ==
    \E i \in 1..Len(StoredAllow(docs["user"])) :
        StoredAllow(docs["user"])[i] = JStr(proc[p].rule.pattern)

\* C24: two AddRule calls on the same tier are not serialized: when the
\* handler that writes last read the document before the other's write, both
\* report success and the stored document holds the last writer's rule and
\* not the first writer's (lost update); when it read after that write, the
\* document holds both rules.
C24_OverlappingAddsLoseOne ==
    \A p \in Procs, q \in Procs :
        BothAdded(p, q) =>
            /\ AllowHolds(q)
            /\ ReadBeforeWrite(p, q) => ~AllowHolds(p)
            /\ ~ReadBeforeWrite(p, q) => AllowHolds(p)

\* the lost update: both calls reported success, one rule is stored
C24_Witness ==
    \E p \in Procs, q \in Procs :
        /\ BothAdded(p, q)
        /\ ReadBeforeWrite(p, q)
        /\ AllowHolds(q)
        /\ ~AllowHolds(p)

\* an update of the deny rule is between its read and its last write, and
\* the other handler has not started
UpdateInProgress(o) ==
    \E p \in Procs :
        /\ o.calls[p] = "update"
        /\ o.pcs[p] \in {"removing", "between", "saving"}
        /\ \A q \in Procs \ {p} : o.pcs[q] = "idle"

\* C28: an evaluate that runs while an UpdateRule of a deny rule is in
\* progress returns deny for an invocation that both the old and the new
\* deny pattern match.
C28_EvaluateDuringUpdateDenies ==
    \A o \in observed : UpdateInProgress(o) => o.decision = "deny"

\* the evaluation that saw neither rule
C28_AskedDuringUpdate ==
    \E o \in observed : UpdateInProgress(o) /\ o.decision # "deny"

====
